---- MODULE Spec2Model ----
(***************************************************************************)
(* Model of the CEE orchestration layer (cubasnik/CEE):                    *)
(*   - CEEVxSDSManager: the TTL cache, get_cee_storage_summary and         *)
(*     monitor_vxsds_health (src/CEE/cee_vxsds_utils.py);                  *)
(*   - CEEOrchestrator.create_complete_tenant_environment and              *)
(*     perform_health_check (src/CEE/cee_integration_example.py);          *)
(*   - CEEOpenStackClient.create_cee_tenant_setup / create_ovs_network     *)
(*     (src/CEE/cee_openstack_client.py).                                  *)
(* The program is single-threaded: every public operation is one action.   *)
(* The three backends (storage gateway, OpenStack, OVS) are environment    *)
(* state: what each adapter call would answer at the moment it is made.    *)
(* A Python exception is the field exc = TRUE of an operator's result.     *)
(***************************************************************************)
EXTENDS Integers, Sequences, FiniteSets, TLC

VARIABLES
    now,                        \* time.time()
    gw,                         \* storage gateway: the answer to each GET
    _protection_domains_cache,  \* CEEVxSDSManager._protection_domains_cache
    _storage_pools_cache,       \* CEEVxSDSManager._storage_pools_cache
    _cache_time,                \* CEEVxSDSManager._cache_time
    summary,                    \* outcome of the latest get_cee_storage_summary
    health_report,              \* value returned by the latest monitor_vxsds_health
    fetched,                    \* gateway getters called by the latest operation
    prior_cache_time,           \* _cache_time when the latest operation began
    cee_volume,                 \* outcome of the latest create_cee_volume
    components,                 \* CEEOrchestrator: which components are not None
    os_faults,                  \* OpenStack: the SDK call sites that raise
    tenant_result,              \* value returned by create_complete_tenant_environment
    os_calls,                   \* SDK calls made by that run, in order
    system_info,                \* storage gateway: the answer to GET /instances/System
    ovs_list_br,                \* OVS: the outcome of `ovs-vsctl list-br`
    throwing_probes,            \* check functions replaced by one that raises
    health_check,               \* value returned by the latest perform_health_check
    ovs_ps,                     \* OVS host: the outcome of `ps aux`
    comprehensive_status,       \* value returned by the latest get_comprehensive_status
    stack_config,               \* stack_config of the latest deploy_application_stack
    stack_result,               \* value returned by the latest deploy_application_stack
    stack_calls,                \* SDK calls made by that deployment, in order
    network_health              \* outcome of the latest monitor_cee_network_health

storage_vars == <<now, gw, _protection_domains_cache, _storage_pools_cache,
                  _cache_time, summary, health_report, fetched, prior_cache_time,
                  cee_volume>>

orchestrator_vars == <<components, os_faults, tenant_result, os_calls, system_info,
                       ovs_list_br, throwing_probes, health_check, ovs_ps,
                       comprehensive_status, stack_config, stack_result, stack_calls,
                       network_health>>

vars == <<storage_vars, orchestrator_vars>>

----------------------------------------------------------------------------
(* Bounds of the model *)

MaxPools == 2
MaxNodes == 2
MaxVolumes == 1
MaxTicks == 2
MaxFaults == 2
MaxItems == 2
StartTime == 1000

(* Program constants *)

CacheTTL == 300

KbPerGb == 1024 * 1024

SeqUpTo(S, n) == UNION {[1..k -> S] : k \in 0..n}

RECURSIVE Sum(_)
Sum(s) == IF s = <<>> THEN 0 ELSE Head(s) + Sum(Tail(s))

----------------------------------------------------------------------------
(* The storage gateway as VxSDSClient sees it.  _make_request returns None *)
(* on any HTTP or transport failure, else the decoded JSON; a JSON body    *)
(* that is not an object makes the getter's response.get raise.            *)

RespNone == [kind |-> "none", data |-> <<>>]
RespMalformed == [kind |-> "malformed", data |-> <<>>]
RespData(d) == [kind |-> "data", data |-> d]

\* one storage pool of the gateway with its Statistics relationship
RawPool(stats, inUseKb, availableKb) ==
    [has_stats |-> stats, capacityInUseInKb |-> inUseKb,
     capacityAvailableForVolumeAllocationInKb |-> availableKb]

PoolNearlyFull == RawPool(TRUE, 20 * KbPerGb + 512, 1 * KbPerGb)
PoolFilling == RawPool(TRUE, 20 * KbPerGb, 3 * KbPerGb + 1023)
PoolUnused == RawPool(TRUE, 0, 3 * KbPerGb)
PoolNoStats == RawPool(FALSE, 0, 0)

RawPools == {PoolNearlyFull, PoolFilling, PoolUnused, PoolNoStats}

PoolNames == <<"pool1", "pool2", "pool3">>

SdcStates == {"Connected", "Disconnected"}
SdsStates == {"Normal", "Degraded"}

VolumeThin == [sizeInKb |-> 8 * KbPerGb, volumeType |-> "ThinProvisioned", mapped |-> TRUE]
VolumeThick == [sizeInKb |-> 4 * KbPerGb + 100, volumeType |-> "ThickProvisioned", mapped |-> FALSE]

RawVolumes == {VolumeThin, VolumeThick}

Failures == {RespNone, RespMalformed}

PdResponses == Failures \cup {RespData(d) : d \in SeqUpTo({"protection_domain1"}, 1)}
PoolResponses == Failures \cup {RespData(d) : d \in SeqUpTo(RawPools, MaxPools)}
VolumeResponses == Failures \cup {RespData(d) : d \in SeqUpTo(RawVolumes, MaxVolumes)}
SdcResponses == Failures \cup {RespData(d) : d \in SeqUpTo(SdcStates, MaxNodes)}
SdsResponses == Failures \cup {RespData(d) : d \in SeqUpTo(SdsStates, MaxNodes)}

----------------------------------------------------------------------------
(* VxSDSClient getters: [exc, val] *)

Raise == [exc |-> TRUE, val |-> <<>>]
Return(v) == [exc |-> FALSE, val |-> v]

get_protection_domains(resp) ==
    IF resp.kind = "none" THEN Return(<<>>)
    ELSE IF resp.kind = "malformed" THEN Raise
    ELSE Return(resp.data)

\* capacity_gb and free_capacity_gb of one pool: KB // 1024 // 1024
PoolInfo(raw, i) ==
    [name |-> PoolNames[i],
     capacity_gb |-> IF raw.has_stats
                     THEN (raw.capacityInUseInKb \div 1024) \div 1024 ELSE 0,
     free_capacity_gb |-> IF raw.has_stats
                          THEN (raw.capacityAvailableForVolumeAllocationInKb \div 1024) \div 1024
                          ELSE 0]

get_storage_pools(resp) ==
    IF resp.kind = "none" THEN Return(<<>>)
    ELSE IF resp.kind = "malformed" THEN Raise
    ELSE Return([i \in 1..Len(resp.data) |-> PoolInfo(resp.data[i], i)])

VolumeInfo(raw) ==
    [size_gb |-> (raw.sizeInKb \div 1024) \div 1024,
     volume_type |-> raw.volumeType,
     mapped_sdcs |-> IF raw.mapped THEN <<"sdc1">> ELSE <<>>]

get_volumes(resp) ==
    IF resp.kind = "none" THEN Return(<<>>)
    ELSE IF resp.kind = "malformed" THEN Raise
    ELSE Return([i \in 1..Len(resp.data) |-> VolumeInfo(resp.data[i])])

\* a node is modelled by its state field (mdmConnectionState / sdsState)
get_sdc_nodes(resp) ==
    IF resp.kind = "none" THEN Return(<<>>)
    ELSE IF resp.kind = "malformed" THEN Raise
    ELSE Return(resp.data)

get_sds_nodes(resp) ==
    IF resp.kind = "none" THEN Return(<<>>)
    ELSE IF resp.kind = "malformed" THEN Raise
    ELSE Return(resp.data)

----------------------------------------------------------------------------
(* CEEVxSDSManager *)

NoneCache == [set |-> FALSE, val |-> <<>>]
Cached(v) == [set |-> TRUE, val |-> v]

\* the manager's three cache fields
Cache(pd, pools, t) == [pd |-> pd, pools |-> pools, time |-> t]

RefreshDue(c, t) == t - c.time > CacheTTL

\* _update_cache that keeps the old cache and timestamp when a fetch
\* comes back empty
_update_cache_skip_empty(c, t, g) ==
    IF RefreshDue(c, t)
    THEN LET pd == get_protection_domains(g.pd)
             pools == get_storage_pools(g.pools)
         IN  IF pd.exc
             THEN [exc |-> TRUE, cache |-> c, calls |-> <<"get_protection_domains">>]
             ELSE IF pools.exc
             THEN [exc |-> TRUE, cache |-> [c EXCEPT !.pd = Cached(pd.val)],
                   calls |-> <<"get_protection_domains", "get_storage_pools">>]
             ELSE IF pd.val = <<>> \/ pools.val = <<>>
             THEN [exc |-> FALSE, cache |-> c,
                   calls |-> <<"get_protection_domains", "get_storage_pools">>]
             ELSE [exc |-> FALSE, cache |-> Cache(Cached(pd.val), Cached(pools.val), t),
                   calls |-> <<"get_protection_domains", "get_storage_pools">>]
    ELSE [exc |-> FALSE, cache |-> c, calls |-> <<>>]

\* _update_cache without the test of line 506: every call refreshes
_update_cache_always(c, t, g) ==
    LET pd == get_protection_domains(g.pd)
        pools == get_storage_pools(g.pools)
    IN  IF pd.exc
        THEN [exc |-> TRUE, cache |-> c, calls |-> <<"get_protection_domains">>]
        ELSE IF pools.exc
        THEN [exc |-> TRUE, cache |-> [c EXCEPT !.pd = Cached(pd.val)],
              calls |-> <<"get_protection_domains", "get_storage_pools">>]
        ELSE [exc |-> FALSE, cache |-> Cache(Cached(pd.val), Cached(pools.val), t),
              calls |-> <<"get_protection_domains", "get_storage_pools">>]

\* _update_cache without line 509: the refresh leaves _cache_time alone
_update_cache_no_stamp(c, t, g) ==
    IF RefreshDue(c, t)
    THEN LET pd == get_protection_domains(g.pd)
             pools == get_storage_pools(g.pools)
         IN  IF pd.exc
             THEN [exc |-> TRUE, cache |-> c, calls |-> <<"get_protection_domains">>]
             ELSE IF pools.exc
             THEN [exc |-> TRUE, cache |-> [c EXCEPT !.pd = Cached(pd.val)],
                   calls |-> <<"get_protection_domains", "get_storage_pools">>]
             ELSE [exc |-> FALSE, cache |-> Cache(Cached(pd.val), Cached(pools.val), c.time),
                   calls |-> <<"get_protection_domains", "get_storage_pools">>]
    ELSE [exc |-> FALSE, cache |-> c, calls |-> <<>>]

\* [exc, cache, calls]
_update_cache(c, t, g) ==
    IF RefreshDue(c, t)
    THEN LET pd == get_protection_domains(g.pd)
             pools == get_storage_pools(g.pools)
         IN  IF pd.exc
             THEN [exc |-> TRUE, cache |-> c, calls |-> <<"get_protection_domains">>]
             ELSE IF pools.exc
             THEN [exc |-> TRUE, cache |-> [c EXCEPT !.pd = Cached(pd.val)],
                   calls |-> <<"get_protection_domains", "get_storage_pools">>]
             ELSE [exc |-> FALSE, cache |-> Cache(Cached(pd.val), Cached(pools.val), t),
                   calls |-> <<"get_protection_domains", "get_storage_pools">>]
    ELSE [exc |-> FALSE, cache |-> c, calls |-> <<>>]

\* summary["capacity"] from the cached pools
Capacity(pools) ==
    LET total == Sum([i \in 1..Len(pools) |-> pools[i].capacity_gb])
        free == Sum([i \in 1..Len(pools) |-> pools[i].free_capacity_gb])
    IN  [total_gb |-> total, free_gb |-> free, used_gb |-> total - free]

\* summary["storage_pools"]: a dict keyed by pool name
StoragePools(pools) ==
    [n \in {pools[i].name : i \in 1..Len(pools)} |->
        LET i == CHOOSE j \in 1..Len(pools) :
                    pools[j].name = n /\ \A k \in 1..Len(pools) : pools[k].name = n => k <= j
        IN  [capacity_gb |-> pools[i].capacity_gb,
             free_capacity_gb |-> pools[i].free_capacity_gb]]

\* summary["volumes"]
VolumeStats(volumes) ==
    LET idx == 1..Len(volumes)
        OfType(ty) == {i \in idx : volumes[i].volume_type = ty}
    IN  [total_count |-> Len(volumes),
         total_size_gb |-> Sum([i \in idx |-> volumes[i].size_gb]),
         by_type |-> [ty \in {volumes[i].volume_type : i \in idx} |->
                        [count |-> Cardinality(OfType(ty)),
                         size_gb |-> Sum([i \in idx |->
                                        IF i \in OfType(ty) THEN volumes[i].size_gb ELSE 0])]],
         mapped_count |-> Cardinality({i \in idx : volumes[i].mapped_sdcs # <<>>})]

\* summary["nodes"]
NodeStats(sdc_nodes, sds_nodes) ==
    [sdc_count |-> Len(sdc_nodes),
     sds_count |-> Len(sds_nodes),
     sdc_online |-> Cardinality({i \in 1..Len(sdc_nodes) : sdc_nodes[i] = "Connected"}),
     sds_online |-> Cardinality({i \in 1..Len(sds_nodes) : sds_nodes[i] = "Normal"})]

NoSummary == [exc |-> FALSE, returned |-> FALSE]
SummaryRaised == [exc |-> TRUE, returned |-> FALSE]

\* [exc, cache, calls, val]
get_cee_storage_summary(c, t, g) ==
    LET upd == _update_cache(c, t, g)
        volumes == get_volumes(g.volumes)
        sdc_nodes == get_sdc_nodes(g.sdc)
        sds_nodes == get_sds_nodes(g.sds)
        Raised(calls) == [exc |-> TRUE, cache |-> upd.cache, calls |-> calls,
                          val |-> SummaryRaised]
    IN  IF upd.exc THEN Raised(upd.calls)
        ELSE IF volumes.exc THEN Raised(upd.calls \o <<"get_volumes">>)
        ELSE IF sdc_nodes.exc THEN Raised(upd.calls \o <<"get_volumes", "get_sdc_nodes">>)
        ELSE IF sds_nodes.exc
        THEN Raised(upd.calls \o <<"get_volumes", "get_sdc_nodes", "get_sds_nodes">>)
        ELSE [exc |-> FALSE, cache |-> upd.cache,
              calls |-> upd.calls \o <<"get_volumes", "get_sdc_nodes", "get_sds_nodes">>,
              val |-> [exc |-> FALSE, returned |-> TRUE,
                       timestamp |-> t,
                       protection_domains |-> Len(upd.cache.pd.val),
                       storage_pools |-> StoragePools(upd.cache.pools.val),
                       volumes |-> VolumeStats(volumes.val),
                       nodes |-> NodeStats(sdc_nodes.val, sds_nodes.val),
                       capacity |-> Capacity(upd.cache.pools.val)]]

----------------------------------------------------------------------------
(* monitor_vxsds_health *)

\* free_percentage = free_gb / total_gb * 100 compared with a threshold k;
\* for integer free_gb and total_gb > 0 the float comparison agrees with the
\* exact one
FreePercentageBelow(capacity, k) == capacity.free_gb * 100 < k * capacity.total_gb

\* NodeFindings with the elif branches reporting an issue instead of a warning
NodeFindings_outage_is_issue(nodes) ==
    [issues |->
        (IF nodes.sdc_count = 0 THEN <<"no_sdc_nodes">>
         ELSE IF nodes.sdc_online < nodes.sdc_count THEN <<"sdc_not_all_online">> ELSE <<>>)
        \o (IF nodes.sds_count = 0 THEN <<"no_sds_nodes">>
            ELSE IF nodes.sds_online < nodes.sds_count THEN <<"sds_not_all_online">>
            ELSE <<>>),
     warnings |-> <<>>]

\* the SDC and SDS node checks: [issues, warnings]
NodeFindings(nodes) ==
    [issues |->
        (IF nodes.sdc_count = 0 THEN <<"no_sdc_nodes">> ELSE <<>>)
        \o (IF nodes.sds_count = 0 THEN <<"no_sds_nodes">> ELSE <<>>),
     warnings |->
        (IF nodes.sdc_count # 0 /\ nodes.sdc_online < nodes.sdc_count
         THEN <<"sdc_not_all_online">> ELSE <<>>)
        \o (IF nodes.sds_count # 0 /\ nodes.sds_online < nodes.sds_count
            THEN <<"sds_not_all_online">> ELSE <<>>)]

\* CapacityFindings whose warning starts below 12% free instead of 20%
CapacityFindings_warn_below_12(capacity) ==
    IF capacity.total_gb > 0
    THEN IF FreePercentageBelow(capacity, 10)
         THEN [exc |-> FALSE, issues |-> <<"capacity_critical">>, warnings |-> <<>>]
         ELSE IF FreePercentageBelow(capacity, 12)
         THEN [exc |-> FALSE, issues |-> <<>>, warnings |-> <<"capacity_low">>]
         ELSE [exc |-> FALSE, issues |-> <<>>, warnings |-> <<>>]
    ELSE [exc |-> FALSE, issues |-> <<>>, warnings |-> <<>>]

\* CapacityFindings without the total_gb > 0 guard and with <= for the 10% limit
CapacityFindings_unguarded(capacity) ==
    IF capacity.total_gb = 0
    THEN [exc |-> TRUE, issues |-> <<>>, warnings |-> <<>>]
    ELSE IF ~FreePercentageBelow(capacity, 10)
            /\ capacity.free_gb * 100 # 10 * capacity.total_gb
         THEN IF FreePercentageBelow(capacity, 20)
              THEN [exc |-> FALSE, issues |-> <<>>, warnings |-> <<"capacity_low">>]
              ELSE [exc |-> FALSE, issues |-> <<>>, warnings |-> <<>>]
         ELSE [exc |-> FALSE, issues |-> <<"capacity_critical">>, warnings |-> <<>>]

\* the free-space check: [exc, issues, warnings]
CapacityFindings(capacity) ==
    IF capacity.total_gb > 0
    THEN IF FreePercentageBelow(capacity, 10)
         THEN [exc |-> FALSE, issues |-> <<"capacity_critical">>, warnings |-> <<>>]
         ELSE IF FreePercentageBelow(capacity, 20)
         THEN [exc |-> FALSE, issues |-> <<>>, warnings |-> <<"capacity_low">>]
         ELSE [exc |-> FALSE, issues |-> <<>>, warnings |-> <<>>]
    ELSE [exc |-> FALSE, issues |-> <<>>, warnings |-> <<>>]

\* OverallStatus with the two tests in the other order
OverallStatus_warnings_first(issues, warnings) ==
    IF warnings # <<>> THEN "warning"
    ELSE IF issues # <<>> THEN "critical"
    ELSE "healthy"

OverallStatus(issues, warnings) ==
    IF issues # <<>> THEN "critical"
    ELSE IF warnings # <<>> THEN "warning"
    ELSE "healthy"

NoReport == [returned |-> FALSE]

HealthReport(status, issues, warnings, metrics) ==
    [returned |-> TRUE, overall_status |-> status, issues |-> issues,
     warnings |-> warnings, metrics |-> metrics]

\* monitor_vxsds_health whose except branch reports the verdict critical
monitor_vxsds_health_error_as_critical(c, t, g) ==
    LET s == get_cee_storage_summary(c, t, g)
        nodes == NodeFindings(s.val.nodes)
        cap == CapacityFindings(s.val.capacity)
        issues == nodes.issues \o cap.issues
        warnings == nodes.warnings \o cap.warnings
    IN  [cache |-> s.cache, calls |-> s.calls, summary |-> s.val,
         val |-> IF s.exc
                 THEN HealthReport("critical", <<"monitoring_error">>, <<>>, NoSummary)
                 ELSE IF cap.exc
                 THEN HealthReport("critical", <<"monitoring_error">>, <<>>, s.val)
                 ELSE HealthReport(OverallStatus(issues, warnings), issues, warnings, s.val)]

\* [cache, calls, summary, val]; never raises
monitor_vxsds_health(c, t, g) ==
    LET s == get_cee_storage_summary(c, t, g)
        nodes == NodeFindings(s.val.nodes)
        cap == CapacityFindings(s.val.capacity)
        issues == nodes.issues \o cap.issues
        warnings == nodes.warnings \o cap.warnings
    IN  [cache |-> s.cache, calls |-> s.calls, summary |-> s.val,
         val |-> IF s.exc
                 THEN HealthReport("error", <<"monitoring_error">>, <<>>, NoSummary)
                 ELSE IF cap.exc
                 THEN HealthReport("error", <<"monitoring_error">>, <<>>, s.val)
                 ELSE HealthReport(OverallStatus(issues, warnings), issues, warnings, s.val)]

----------------------------------------------------------------------------
(* The OpenStack connection as CEEOpenStackClient sees it: every SDK call  *)
(* either returns or raises.  A call site is the SDK call and the resource *)
(* it is made for; the environment state os_faults holds the call sites    *)
(* that raise at present.                                                  *)

Site(call, target) == [call |-> call, target |-> target]

\* identity.find_role("member") returning None instead of a role
RoleAbsent == Site("find_role", "absent")

TenantSites ==
    {Site("create_project", "tenant"), Site("create_user", "tenant"),
     Site("find_role", "member"), RoleAbsent,
     Site("assign_project_role_to_user", "tenant"),
     Site("create_network", "tenant"), Site("create_subnet", "tenant"),
     Site("create_router", "tenant"), Site("add_interface_to_router", "tenant")}

NetworkingSites ==
    {Site("create_network", "internal"), Site("create_subnet", "internal"),
     Site("create_network", "dmz"), Site("create_subnet", "dmz")}

SecurityGroupSites ==
    {Site("create_security_group", "web"), Site("create_security_group_rule", "web-80"),
     Site("create_security_group_rule", "web-443"),
     Site("create_security_group", "ssh"), Site("create_security_group_rule", "ssh-22")}

\* one SDK call in the log of a run: the step of
\* create_complete_tenant_environment it belongs to, and whether it returned
Entry(step, site, ok) ==
    [step |-> step, call |-> site.call, target |-> site.target, ok |-> ok]

\* the SDK calls `sites` made in order until the first one raises:
\* [ok, log, failed]
RunCalls(step, sites, faults) ==
    LET bad == {i \in 1..Len(sites) : sites[i] \in faults}
        stop == IF bad = {} THEN Len(sites)
                ELSE CHOOSE i \in bad : \A j \in bad : i <= j
    IN  [ok |-> bad = {},
         log |-> [i \in 1..stop |-> Entry(step, sites[i], i \notin bad)],
         failed |-> IF bad = {} THEN "" ELSE sites[stop].call]

\* create_ovs_network: [status, message, has_subnet, log]; never raises
create_ovs_network(step, target, cidr, faults) ==
    LET r == RunCalls(step,
                      <<Site("create_network", target)>>
                      \o (IF cidr THEN <<Site("create_subnet", target)>> ELSE <<>>),
                      faults)
    IN  [status |-> IF r.ok THEN "success" ELSE "error",
         message |-> r.failed,
         has_subnet |-> r.ok /\ cidr,
         log |-> r.log]

\* create_cee_tenant_setup(create_router=True): [status, message,
\* tenant_setup, log]; tenant_setup is the set of keys of `results`
create_cee_tenant_setup(with_user, cidr, faults) ==
    LET identity ==
            RunCalls(1,
                     <<Site("create_project", "tenant")>>
                     \o (IF with_user
                         THEN <<Site("create_user", "tenant"), Site("find_role", "member")>>
                              \o (IF RoleAbsent \in faults THEN <<>>
                                  ELSE <<Site("assign_project_role_to_user", "tenant")>>)
                         ELSE <<>>),
                     faults)
        network == create_ovs_network(1, "tenant", cidr, faults)
        \* results["subnet"].id is evaluated before add_interface_to_router
        router ==
            RunCalls(1,
                     <<Site("create_router", "tenant")>>
                     \o (IF network.has_subnet
                         THEN <<Site("add_interface_to_router", "tenant")>> ELSE <<>>),
                     faults)
        Error(msg, log) == [status |-> "error", message |-> msg, tenant_setup |-> {},
                            log |-> log]
    IN  IF ~identity.ok THEN Error(identity.failed, identity.log)
        ELSE IF network.status # "success"
        THEN [status |-> "success", message |-> "",
              tenant_setup |-> {"project"} \cup (IF with_user THEN {"user"} ELSE {}),
              log |-> identity.log \o network.log]
        ELSE IF ~router.ok
        THEN Error(router.failed, identity.log \o network.log \o router.log)
        ELSE IF ~network.has_subnet
        THEN Error("NoneType has no attribute id", identity.log \o network.log \o router.log)
        ELSE [status |-> "success", message |-> "",
              tenant_setup |-> {"project", "network", "subnet", "router"}
                               \cup (IF with_user THEN {"user"} ELSE {}),
              log |-> identity.log \o network.log \o router.log]

\* _setup_tenant_networking: [status, networks, subnets, log]
_setup_tenant_networking(faults) ==
    LET internal_net == create_ovs_network(2, "internal", TRUE, faults)
        dmz_net == create_ovs_network(2, "dmz", TRUE, faults)
        made == (IF internal_net.status = "success" THEN {"internal"} ELSE {})
                \cup (IF dmz_net.status = "success" THEN {"dmz"} ELSE {})
    IN  [status |-> "success", networks |-> made, subnets |-> made,
         log |-> internal_net.log \o dmz_net.log]

\* _create_tenant_security_groups removing the web group when the ssh group fails
_create_tenant_security_groups_rollback(faults) ==
    LET web == RunCalls(3, <<Site("create_security_group", "web"),
                             Site("create_security_group_rule", "web-80"),
                             Site("create_security_group_rule", "web-443")>>, faults)
        ssh == RunCalls(3, <<Site("create_security_group", "ssh"),
                             Site("create_security_group_rule", "ssh-22")>>, faults)
    IN  IF ~web.ok THEN [security_groups |-> {}, log |-> web.log]
        ELSE IF ~ssh.ok
        THEN [security_groups |-> {},
              log |-> web.log \o ssh.log
                      \o <<Entry(3, Site("delete_security_group", "web"), TRUE)>>]
        ELSE [security_groups |-> {"web", "ssh"}, log |-> web.log \o ssh.log]

\* _create_tenant_security_groups: [security_groups, log]; never raises
_create_tenant_security_groups(faults) ==
    LET web == RunCalls(3, <<Site("create_security_group", "web"),
                             Site("create_security_group_rule", "web-80"),
                             Site("create_security_group_rule", "web-443")>>, faults)
        ssh == RunCalls(3, <<Site("create_security_group", "ssh"),
                             Site("create_security_group_rule", "ssh-22")>>, faults)
    IN  IF ~web.ok THEN [security_groups |-> {}, log |-> web.log]
        ELSE IF ~ssh.ok THEN [security_groups |-> {"web"}, log |-> web.log \o ssh.log]
        ELSE [security_groups |-> {"web", "ssh"}, log |-> web.log \o ssh.log]

\* _setup_tenant_storage_quota
_setup_tenant_storage_quota(tenant_name, quota_gb) ==
    [tenant |-> tenant_name, allocated_quota_gb |-> quota_gb, storage_backend |-> "vxsds"]

\* one entry of result["errors"]: which statement appended it, and the message
ErrorString(source, message) == [source |-> source, message |-> message]

\* the arguments of create_complete_tenant_environment
TenantRequest(with_user, cidr, quota) ==
    [tenant_name |-> "test-tenant", with_user |-> with_user, network_cidr |-> cidr,
     storage_quota_gb |-> quota]

NoResult == [returned |-> FALSE]

\* create_complete_tenant_environment without the append of line 119: a
\* failed step 1 sets partial_failure and records no error
create_complete_tenant_environment_silent_step1(client, req, faults) ==
    LET tenant_setup == create_cee_tenant_setup(req.with_user, req.network_cidr, faults)
        network_result == _setup_tenant_networking(faults)
        sg == _create_tenant_security_groups(faults)
        step1 == tenant_setup.status = "success"
        step2 == network_result.status = "success"
        errors == IF step2 THEN <<>> ELSE <<ErrorString("networking", "")>>
        created == (IF step1 THEN "openstack" :> tenant_setup.tenant_setup ELSE <<>>)
                   @@ (IF step2
                       THEN "networking" :> [status |-> network_result.status,
                                             networks |-> network_result.networks,
                                             subnets |-> network_result.subnets]
                       ELSE <<>>)
                   @@ (IF step1 THEN "security_groups" :> sg.security_groups ELSE <<>>)
                   @@ ("storage" :> _setup_tenant_storage_quota(req.tenant_name,
                                                                req.storage_quota_gb))
    IN  IF ~client
        THEN \* self.openstack_client is None: the first call raises AttributeError
             [result |-> [returned |-> TRUE, tenant_name |-> req.tenant_name,
                          status |-> "error", created_resources |-> <<>>,
                          errors |-> <<ErrorString("exception",
                                                   "NoneType has no attribute create_cee_tenant_setup")>>],
              log |-> <<>>]
        ELSE [result |-> [returned |-> TRUE, tenant_name |-> req.tenant_name,
                          status |-> IF step1 /\ step2 THEN "success" ELSE "partial_failure",
                          created_resources |-> created,
                          errors |-> errors],
              log |-> tenant_setup.log \o network_result.log
                      \o (IF step1 THEN sg.log ELSE <<>>)]

\* create_complete_tenant_environment: [result, log]; never raises
create_complete_tenant_environment(client, req, faults) ==
    LET tenant_setup == create_cee_tenant_setup(req.with_user, req.network_cidr, faults)
        network_result == _setup_tenant_networking(faults)
        sg == _create_tenant_security_groups(faults)
        step1 == tenant_setup.status = "success"
        step2 == network_result.status = "success"
        errors == (IF step1 THEN <<>>
                   ELSE <<ErrorString("openstack_tenant", tenant_setup.message)>>)
                  \o (IF step2 THEN <<>>
                      ELSE <<ErrorString("networking", "")>>)
        created == (IF step1 THEN "openstack" :> tenant_setup.tenant_setup ELSE <<>>)
                   @@ (IF step2
                       THEN "networking" :> [status |-> network_result.status,
                                             networks |-> network_result.networks,
                                             subnets |-> network_result.subnets]
                       ELSE <<>>)
                   @@ (IF step1 THEN "security_groups" :> sg.security_groups ELSE <<>>)
                   @@ ("storage" :> _setup_tenant_storage_quota(req.tenant_name,
                                                                req.storage_quota_gb))
    IN  IF ~client
        THEN \* self.openstack_client is None: the first call raises AttributeError
             [result |-> [returned |-> TRUE, tenant_name |-> req.tenant_name,
                          status |-> "error", created_resources |-> <<>>,
                          errors |-> <<ErrorString("exception",
                                                   "NoneType has no attribute create_cee_tenant_setup")>>],
              log |-> <<>>]
        ELSE [result |-> [returned |-> TRUE, tenant_name |-> req.tenant_name,
                          status |-> IF step1 /\ step2 THEN "success" ELSE "partial_failure",
                          created_resources |-> created,
                          errors |-> errors],
              log |-> tenant_setup.log \o network_result.log
                      \o (IF step1 THEN sg.log ELSE <<>>)]

----------------------------------------------------------------------------
(* CEEOrchestrator: components and perform_health_check *)

Components(os, vc, vm, ovs) ==
    [openstack_client |-> os, vxsds_client |-> vc, vxsds_manager |-> vm,
     ovs_manager |-> ovs, network_topology |-> ovs]

\* the constructor that raises inside _initialize_components, if any
InitFailures == {"none", "openstack", "vxsds", "ovs"}

\* _initialize_components with one try block per component
_initialize_components_each_guarded(failing) ==
    Components(failing # "openstack", failing # "vxsds", failing # "vxsds",
               failing # "ovs")

\* _initialize_components: the attributes assigned before the first
\* constructor that raises are set, the others stay None (FALSE)
_initialize_components(failing) ==
    Components(failing # "openstack",
               failing \notin {"openstack", "vxsds"},
               failing \notin {"openstack", "vxsds"},
               failing = "none")

\* identity.projects() as called by _check_openstack_api
ProjectsSite == Site("projects", "list")

\* GET /instances/System: no answer, an empty JSON body, a system object
SystemResponses == {RespNone, RespData(<<>>), RespData(<<"system">>)}

get_system_info(resp) == resp

\* Python truthiness of what _make_request returned
Truthy(resp) == resp.kind = "data" /\ resp.data # <<>>

\* `ovs-vsctl list-br` through _run_ovs_command: (success, output lines)
ListBr(success, bridges) == [success |-> success, bridges |-> bridges]

ListBrOutcomes ==
    {ListBr(FALSE, <<>>), ListBr(TRUE, <<>>), ListBr(TRUE, <<"br-ex">>),
     ListBr(TRUE, <<"br-ex", "br-int">>)}

required_bridges == <<"br-int">>

_check_openstack_api(comp, faults) ==
    IF ~comp.openstack_client THEN "fail"
    ELSE IF ProjectsSite \in faults THEN "fail"
    ELSE "pass"

_check_vxsds_connectivity(comp, sys) ==
    IF ~comp.vxsds_client THEN "fail"
    ELSE IF Truthy(get_system_info(sys)) THEN "pass"
    ELSE "fail"

_check_ovs_bridges(comp, listbr) ==
    IF ~comp.ovs_manager THEN "fail"
    ELSE IF listbr.success
    THEN LET missing_bridges ==
                 {i \in 1..Len(required_bridges) :
                     \A j \in 1..Len(listbr.bridges) :
                         listbr.bridges[j] # required_bridges[i]}
         IN  IF missing_bridges # {} THEN "warning" ELSE "pass"
    ELSE "fail"

_check_network_connectivity == "pass"

\* health is what monitor_vxsds_health returned to the probe
_check_storage_health(comp, health) ==
    IF ~comp.vxsds_manager THEN "warning"
    ELSE IF health.overall_status = "healthy" THEN "pass"
    ELSE IF health.overall_status = "warning" THEN "warning"
    ELSE "fail"

\* the list `checks` of perform_health_check
checks ==
    <<"openstack_api", "vxsds_connectivity", "ovs_bridges", "network_connectivity",
      "storage_health">>

\* what calling one check function does: it raises, or returns a status.
\* `throwing` are the check functions replaced by a callable that raises.
CheckFunction(name, comp, faults, sys, listbr, health, throwing) ==
    [raised |-> name \in throwing,
     status |-> CASE name = "openstack_api" -> _check_openstack_api(comp, faults)
                  [] name = "vxsds_connectivity" -> _check_vxsds_connectivity(comp, sys)
                  [] name = "ovs_bridges" -> _check_ovs_bridges(comp, listbr)
                  [] name = "network_connectivity" -> _check_network_connectivity
                  [] name = "storage_health" -> _check_storage_health(comp, health)]

NoHealthCheck == [returned |-> FALSE]

\* the dict health_check before the loop
EmptyHealthCheck(t) ==
    [returned |-> TRUE, timestamp |-> t, checks |-> <<>>, order |-> <<>>,
     passed |-> 0, failed |-> 0, warnings |-> 0]

\* the body of the loop without the failed tally of the except branch
LoopBody_raise_uncounted(hc, name, outcome) ==
    LET entry == [hc EXCEPT !.order = Append(@, name)]
    IN  IF outcome.raised
        THEN [entry EXCEPT !.checks = (name :> "fail") @@ @]
        ELSE LET stored == [entry EXCEPT !.checks = (name :> outcome.status) @@ @]
             IN  IF outcome.status = "pass" THEN [stored EXCEPT !.passed = @ + 1]
                 ELSE IF outcome.status = "warning" THEN [stored EXCEPT !.warnings = @ + 1]
                 ELSE [stored EXCEPT !.failed = @ + 1]

\* the body of the loop over `checks`; order logs the functions called
LoopBody(hc, name, outcome) ==
    LET entry == [hc EXCEPT !.order = Append(@, name)]
    IN  IF outcome.raised
        THEN [entry EXCEPT !.checks = (name :> "fail") @@ @, !.failed = @ + 1]
        ELSE LET stored == [entry EXCEPT !.checks = (name :> outcome.status) @@ @]
             IN  IF outcome.status = "pass" THEN [stored EXCEPT !.passed = @ + 1]
                 ELSE IF outcome.status = "warning" THEN [stored EXCEPT !.warnings = @ + 1]
                 ELSE [stored EXCEPT !.failed = @ + 1]

RECURSIVE RunChecks(_, _, _, _, _, _, _, _)
RunChecks(i, hc, comp, faults, sys, listbr, health, throwing) ==
    IF i > Len(checks) THEN hc
    ELSE RunChecks(i + 1,
                   LoopBody(hc, checks[i],
                            CheckFunction(checks[i], comp, faults, sys, listbr, health,
                                          throwing)),
                   comp, faults, sys, listbr, health, throwing)

\* whether perform_health_check reaches monitor_vxsds_health
StorageProbed(comp, throwing) ==
    comp.vxsds_manager /\ "storage_health" \notin throwing

\* perform_health_check: [val, probed, monitor]
perform_health_check(comp, faults, sys, listbr, throwing, c, t, g) ==
    LET monitor == monitor_vxsds_health(c, t, g)
    IN  [val |-> RunChecks(1, EmptyHealthCheck(t), comp, faults, sys, listbr, monitor.val,
                           throwing),
         probed |-> StorageProbed(comp, throwing),
         monitor |-> monitor]

----------------------------------------------------------------------------
(* CEEOrchestrator.get_comprehensive_status and what it calls *)

\* the listing calls of get_cee_cluster_status, in order
ClusterStatusSites ==
    <<Site("compute.services", "list"), Site("network.agents", "list"),
      Site("volume.services", "list"), Site("compute.hypervisors", "list"),
      Site("compute.servers", "list"), Site("network.networks", "list"),
      Site("network.subnets", "list")>>

\* get_cee_cluster_status: [status, log]; never raises
get_cee_cluster_status(faults) ==
    LET r == RunCalls(0, ClusterStatusSites, faults)
    IN  [status |-> IF r.ok THEN "success" ELSE "error", log |-> r.log]

\* whether cee_network_utils binds the name `time` at module level: its
\* only `import time` is under `if __name__ == "__main__"`
NetworkUtilsImportsTime == FALSE

\* `ps aux` through _run_ovs_command: the command fails, shows no
\* ovs-vswitchd line, or shows one with %CPU in tenths of a percent
PsFailed == [success |-> FALSE, found |-> FALSE, cpu |-> 0]
PsNoProcess == [success |-> TRUE, found |-> FALSE, cpu |-> 0]
PsCpu(tenths) == [success |-> TRUE, found |-> TRUE, cpu |-> tenths]

PsOutcomes == {PsFailed, PsNoProcess, PsCpu(125), PsCpu(800), PsCpu(805)}

\* monitor_ovs_performance: [exc, has_cpu, cpu, bridges]; building
\* performance_data evaluates time.time() before the try block
monitor_ovs_performance(listbr, ps) ==
    IF ~NetworkUtilsImportsTime
    THEN [exc |-> TRUE, has_cpu |-> FALSE, cpu |-> 0, bridges |-> <<>>]
    ELSE [exc |-> FALSE,
          has_cpu |-> ps.success /\ ps.found,
          cpu |-> IF ps.success /\ ps.found THEN ps.cpu ELSE 0,
          bridges |-> IF listbr.success THEN listbr.bridges ELSE <<>>]

NoNetworkHealth == [called |-> FALSE]

\* the outcome of one call: the report, or the exception that escaped
NetworkHealth(exc, status, issues) ==
    [called |-> TRUE, returned |-> ~exc, overall_status |-> status, issues |-> issues]

\* monitor_cee_network_health: building health_report evaluates time.time()
\* before the try block; the issues are the required bridges that are
\* missing, then the CPU of ovs-vswitchd when above 80
monitor_cee_network_health(listbr, ps) ==
    LET perf_data == monitor_ovs_performance(listbr, ps)
        bridges == IF listbr.success THEN listbr.bridges ELSE <<>>
        missing == SelectSeq(required_bridges,
                             LAMBDA b : \A i \in 1..Len(bridges) : bridges[i] # b)
        issues == [i \in 1..Len(missing) |-> "bridge_missing"]
                  \o (IF perf_data.has_cpu /\ perf_data.cpu > 800
                      THEN <<"high_cpu">> ELSE <<>>)
    IN  IF ~NetworkUtilsImportsTime THEN NetworkHealth(TRUE, "none", <<>>)
        ELSE IF perf_data.exc THEN NetworkHealth(FALSE, "error", <<"monitoring_error">>)
        ELSE NetworkHealth(FALSE,
                           IF issues = <<>> THEN "healthy"
                           ELSE IF Len(issues) <= 2 THEN "warning" ELSE "critical",
                           issues)

\* ovs_cpu > 80, with ovs_cpu in tenths of a percent
HighOvsCpu(perf) == perf.has_cpu /\ perf.cpu > 800

NoStatus == [returned |-> FALSE]

\* the dict `status` as get_comprehensive_status builds it
\* the dict `status`; health_steps records overall_health at the start and
\* after each component was evaluated
Status(t, health, comps, alerts, recommendations) ==
    [returned |-> TRUE, timestamp |-> t, overall_health |-> health,
     components |-> comps, alerts |-> alerts, recommendations |-> recommendations,
     health_steps |-> <<health>>]

\* lines 349-356: the OpenStack part
StatusAfterOpenStack(st, comp, faults) ==
    IF ~comp.openstack_client THEN st
    ELSE LET os_status == get_cee_cluster_status(faults)
             stored == [st EXCEPT !.components = ("openstack" :> [status |-> os_status.status]) @@ @]
             after == IF os_status.status # "success"
                      THEN [stored EXCEPT
                               !.alerts = Append(@, "OpenStack cluster issues detected"),
                               !.overall_health = "warning"]
                      ELSE stored
         IN  [after EXCEPT !.health_steps = Append(@, after.overall_health)]

\* the VxSDS part assigning "warning" for every verdict that is neither
\* healthy nor critical, whatever overall_health was
StatusAfterVxsds_overwrites(st, comp, vxsds_health) ==
    IF ~comp.vxsds_manager THEN st
    ELSE LET stored == [st EXCEPT !.components = ("vxsds" :> vxsds_health) @@ @]
             after == IF vxsds_health.overall_status # "healthy"
                      THEN [stored EXCEPT
                               !.alerts = Append(@, "VxSDS issues"),
                               !.overall_health =
                                   IF vxsds_health.overall_status = "critical"
                                   THEN "critical" ELSE "warning"]
                      ELSE [stored EXCEPT !.overall_health = "healthy"]
         IN  [after EXCEPT !.health_steps = Append(@, after.overall_health)]

\* lines 358-368: the VxSDS part; vxsds_health is monitor_vxsds_health()
StatusAfterVxsds(st, comp, vxsds_health) ==
    IF ~comp.vxsds_manager THEN st
    ELSE LET stored == [st EXCEPT !.components = ("vxsds" :> vxsds_health) @@ @]
             after == IF vxsds_health.overall_status # "healthy"
                      THEN [stored EXCEPT
                               !.alerts = Append(@, "VxSDS issues"),
                               !.overall_health =
                                   IF vxsds_health.overall_status = "critical"
                                   THEN "critical"
                                   ELSE IF @ = "healthy" THEN "warning" ELSE @]
                      ELSE stored
         IN  [after EXCEPT !.health_steps = Append(@, after.overall_health)]

\* lines 370-381: the OVS part; network_perf did not raise
StatusAfterOvs(st, comp, network_perf) ==
    IF ~comp.ovs_manager THEN st
    ELSE LET stored == [st EXCEPT !.components = ("ovs" :> network_perf) @@ @]
             after == IF HighOvsCpu(network_perf)
                      THEN [stored EXCEPT
                               !.alerts = Append(@, "High OVS CPU usage"),
                               !.overall_health = IF @ = "healthy" THEN "warning" ELSE @]
                      ELSE stored
         IN  [after EXCEPT !.health_steps = Append(@, after.overall_health)]

\* lines 383-401 without the storage-capacity rule
Recommendations_no_capacity_rule(st) ==
    IF Len(st.alerts) = 0 THEN <<"System is operating normally">>
    ELSE <<"Review alerts and consider maintenance actions">>

\* lines 383-401: the recommendations
Recommendations(st) ==
    (IF Len(st.alerts) = 0 THEN <<"System is operating normally">>
     ELSE <<"Review alerts and consider maintenance actions">>)
    \o (IF /\ "vxsds" \in DOMAIN st.components
           /\ st.components["vxsds"].metrics.returned
           /\ st.components["vxsds"].metrics.capacity.total_gb > 0
           /\ FreePercentageBelow(st.components["vxsds"].metrics.capacity, 15)
        THEN <<"Consider adding storage capacity">> ELSE <<>>)

\* get_comprehensive_status with the except branch re-raising
get_comprehensive_status_unguarded(comp, faults, listbr, ps, t, vxsds_health) ==
    LET s2 == StatusAfterVxsds(StatusAfterOpenStack(Status(t, "healthy", <<>>, <<>>, <<>>),
                                                    comp, faults),
                               comp, vxsds_health)
        network_perf == monitor_ovs_performance(listbr, ps)
        s3 == StatusAfterOvs(s2, comp, network_perf)
    IN  IF comp.ovs_manager /\ network_perf.exc
        THEN NoStatus
        ELSE [s3 EXCEPT !.recommendations = Recommendations(s3)]

\* get_comprehensive_status: the returned status; never raises
get_comprehensive_status(comp, faults, listbr, ps, t, vxsds_health) ==
    LET s2 == StatusAfterVxsds(StatusAfterOpenStack(Status(t, "healthy", <<>>, <<>>, <<>>),
                                                    comp, faults),
                               comp, vxsds_health)
        network_perf == monitor_ovs_performance(listbr, ps)
        s3 == StatusAfterOvs(s2, comp, network_perf)
    IN  IF comp.ovs_manager /\ network_perf.exc
        THEN [s2 EXCEPT !.overall_health = "error",
                        !.alerts = Append(@, "Status collection error")]
        ELSE [s3 EXCEPT !.recommendations = Recommendations(s3)]

----------------------------------------------------------------------------
(* CEEOrchestrator.deploy_application_stack and what it calls *)

VolumeNames == <<"vol1", "vol2", "vol3">>
InstanceNames == <<"inst1", "inst2", "inst3">>

\* one entry of stack_config["volumes"] or stack_config["instances"]
Item(kind, name, qos) == [kind |-> kind, name |-> name, qos |-> qos]

\* stack_config: nv volume items and ni instance items, which all carry a
\* "qos" entry with max_kbps, or none does
StackConfig(nv, ni, qos) ==
    [volumes |-> [i \in 1..nv |-> Item("volume", VolumeNames[i], FALSE)],
     instances |-> [i \in 1..ni |-> Item("instance", InstanceNames[i], qos)]]

\* the SDK calls of create_vm_with_vxsds_storage, in order; a find_* call
\* that returns None ends the call like one that raises
VmCalls ==
    <<"find_image", "find_flavor", "find_network", "create_volume", "wait_for_status",
      "create_server", "wait_for_server">>

\* create_vm_with_vxsds_storage: [status, log]; never raises
create_vm_with_vxsds_storage(step, name, faults) ==
    LET r == RunCalls(step, [i \in 1..Len(VmCalls) |-> Site(VmCalls[i], name)], faults)
    IN  [status |-> IF r.ok THEN "success" ELSE "error", log |-> r.log]

\* configure_ovs_qos with max_kbps given: [status, log]; never raises
configure_ovs_qos(step, name, faults) ==
    LET r == RunCalls(step, <<Site("create_qos_policy", name),
                              Site("create_qos_bandwidth_limit_rule", name),
                              Site("update_port", name)>>, faults)
    IN  [status |-> IF r.ok THEN "success" ELSE "error", log |-> r.log]

\* the state of one run: the dict `result`, the SDK calls made, and whether
\* an exception is on its way to the except branch
Run(volumes, instances, log, exc) ==
    [volumes |-> volumes, instances |-> instances, log |-> log, exc |-> exc]

\* lines 284-294: the loop body for one volume item
VolumeItem(run, item, faults) ==
    LET volume_result == create_vm_with_vxsds_storage(1, item.name, faults)
    IN  IF volume_result.status = "success"
        THEN [run EXCEPT !.volumes = Append(@, item.name), !.log = @ \o volume_result.log]
        ELSE [run EXCEPT !.log = @ \o volume_result.log]

\* the loop body for one instance item with the QoS block outside the
\* test of instance_result["status"]
InstanceItem_qos_regardless(run, item, faults) ==
    LET instance_result == create_vm_with_vxsds_storage(2, item.name, faults)
        ports == RunCalls(2, <<Site("network.ports", item.name)>>, faults)
        qos == configure_ovs_qos(2, item.name, faults)
        created == instance_result.status = "success"
        listed == IF created THEN Append(run.instances, item.name) ELSE run.instances
    IN  IF ~item.qos
        THEN [run EXCEPT !.instances = listed, !.log = @ \o instance_result.log]
        ELSE IF ~ports.ok
        THEN [run EXCEPT !.instances = listed,
                         !.log = @ \o instance_result.log \o ports.log,
                         !.exc = TRUE]
        ELSE [run EXCEPT !.instances = listed,
                         !.log = @ \o instance_result.log \o ports.log \o qos.log]

\* lines 297-323: the loop body for one instance item; the server has one port
InstanceItem(run, item, faults) ==
    LET instance_result == create_vm_with_vxsds_storage(2, item.name, faults)
        ports == RunCalls(2, <<Site("network.ports", item.name)>>, faults)
        qos == configure_ovs_qos(2, item.name, faults)
    IN  IF instance_result.status # "success"
        THEN [run EXCEPT !.log = @ \o instance_result.log]
        ELSE IF ~item.qos
        THEN [run EXCEPT !.instances = Append(@, item.name),
                         !.log = @ \o instance_result.log]
        ELSE IF ~ports.ok
        THEN [run EXCEPT !.instances = Append(@, item.name),
                         !.log = @ \o instance_result.log \o ports.log,
                         !.exc = TRUE]
        ELSE [run EXCEPT !.instances = Append(@, item.name),
                         !.log = @ \o instance_result.log \o ports.log \o qos.log]

\* the two for loops: items from the i-th on, until an exception
RECURSIVE RunItems(_, _, _, _, _)
RunItems(items, i, run, client, faults) ==
    IF i > Len(items) \/ run.exc THEN run
    ELSE IF ~client
    THEN \* self.openstack_client is None: AttributeError at the first item
         [run EXCEPT !.exc = TRUE]
    ELSE RunItems(items, i + 1,
                  IF items[i].kind = "volume" THEN VolumeItem(run, items[i], faults)
                  ELSE InstanceItem(run, items[i], faults),
                  client, faults)

NoStack == [returned |-> FALSE]

\* deploy_application_stack: [result, log]; never raises
deploy_application_stack(client, config, faults) ==
    LET run == RunItems(config.volumes \o config.instances, 1,
                        Run(<<>>, <<>>, <<>>, FALSE), client, faults)
    IN  [result |-> [returned |-> TRUE, stack_name |-> "test-stack",
                     status |-> IF run.exc THEN "error" ELSE "success",
                     instances |-> run.instances, volumes |-> run.volumes,
                     load_balancers |-> <<>>,
                     message |-> IF run.exc THEN "exception" ELSE ""],
         log |-> run.log]

----------------------------------------------------------------------------
(* CEEVxSDSManager.create_cee_volume and the gateway's POST /instances/Volume *)

\* the sizes asked for, in GB
VolumeSizes == {1}

\* the volume the gateway holds after a thin create of size_gb
NewVolume(size_gb) ==
    [sizeInKb |-> size_gb * KbPerGb, volumeType |-> "ThinProvisioned", mapped |-> FALSE]

\* the gateway takes the volume from its first pool when that pool has room
GatewayAccepts(g, size_gb) ==
    /\ g.pools.kind = "data"
    /\ Len(g.pools.data) >= 1
    /\ g.pools.data[1].has_stats
    /\ g.pools.data[1].capacityAvailableForVolumeAllocationInKb >= size_gb * KbPerGb

\* the gateway after it accepted the POST
GatewayAfterCreate(g, size_gb) ==
    LET pool == g.pools.data[1]
        charged == RawPool(TRUE, pool.capacityInUseInKb + size_gb * KbPerGb,
                           pool.capacityAvailableForVolumeAllocationInKb
                               - size_gb * KbPerGb)
    IN  [g EXCEPT !.pools = RespData([g.pools.data EXCEPT ![1] = charged]),
                  !.volumes = IF g.volumes.kind = "data"
                              THEN RespData(Append(g.volumes.data, NewVolume(size_gb)))
                              ELSE @]

NoVolume == [returned |-> FALSE]

\* get_default_storage_pool on the cache: pool1 or the first pool, if any
HasDefaultPool(c) == c.pools.val # <<>>

\* create_cee_volume with the cache invalidated after the POST
create_cee_volume_invalidating(c, t, g, size_gb, reachable) ==
    LET upd == _update_cache(c, t, g)
        accepted == reachable /\ GatewayAccepts(g, size_gb)
        after == IF accepted THEN GatewayAfterCreate(g, size_gb) ELSE g
        volumes == get_volumes(after.volumes)
        Result(exc, created) == [returned |-> ~exc, exc |-> exc, created |-> created,
                                 at |-> t, size_gb |-> size_gb]
    IN  IF upd.exc
        THEN [cache |-> upd.cache, calls |-> upd.calls, gw |-> g, val |-> Result(TRUE, FALSE)]
        ELSE IF ~HasDefaultPool(upd.cache)
        THEN [cache |-> upd.cache, calls |-> upd.calls, gw |-> g, val |-> Result(FALSE, FALSE)]
        ELSE IF ~accepted
        THEN [cache |-> upd.cache, calls |-> upd.calls \o <<"create_volume">>, gw |-> g,
              val |-> Result(FALSE, FALSE)]
        ELSE [cache |-> Cache(upd.cache.pd, upd.cache.pools, 0),
              calls |-> upd.calls \o <<"create_volume", "get_volumes">>, gw |-> after,
              val |-> Result(volumes.exc, ~volumes.exc)]

\* create_cee_volume: [cache, calls, gw, val]
create_cee_volume(c, t, g, size_gb, reachable) ==
    LET upd == _update_cache(c, t, g)
        accepted == reachable /\ GatewayAccepts(g, size_gb)
        after == IF accepted THEN GatewayAfterCreate(g, size_gb) ELSE g
        volumes == get_volumes(after.volumes)
        Result(exc, created) == [returned |-> ~exc, exc |-> exc, created |-> created,
                                 at |-> t, size_gb |-> size_gb]
    IN  IF upd.exc
        THEN [cache |-> upd.cache, calls |-> upd.calls, gw |-> g, val |-> Result(TRUE, FALSE)]
        ELSE IF ~HasDefaultPool(upd.cache)
        THEN [cache |-> upd.cache, calls |-> upd.calls, gw |-> g, val |-> Result(FALSE, FALSE)]
        ELSE IF ~accepted
        THEN [cache |-> upd.cache, calls |-> upd.calls \o <<"create_volume">>, gw |-> g,
              val |-> Result(FALSE, FALSE)]
        ELSE [cache |-> upd.cache,
              calls |-> upd.calls \o <<"create_volume", "get_volumes">>, gw |-> after,
              val |-> Result(volumes.exc, ~volumes.exc)]

----------------------------------------------------------------------------
(* Operations of CEEVxSDSManager as actions *)

TheCache == Cache(_protection_domains_cache, _storage_pools_cache, _cache_time)

SetCache(c) ==
    /\ _protection_domains_cache' = c.pd
    /\ _storage_pools_cache' = c.pools
    /\ _cache_time' = c.time

\* a caller invokes manager.get_cee_storage_summary()
GetCeeStorageSummary ==
    LET r == get_cee_storage_summary(TheCache, now, gw)
    IN  /\ SetCache(r.cache)
        /\ summary' = r.val
        /\ health_report' = NoReport
        /\ fetched' = r.calls
        /\ prior_cache_time' = _cache_time
        /\ UNCHANGED <<now, gw, cee_volume, orchestrator_vars>>

\* a caller invokes manager.monitor_vxsds_health()
MonitorVxsdsHealth ==
    LET r == monitor_vxsds_health(TheCache, now, gw)
    IN  /\ SetCache(r.cache)
        /\ summary' = r.summary
        /\ health_report' = r.val
        /\ fetched' = r.calls
        /\ prior_cache_time' = _cache_time
        /\ UNCHANGED <<now, gw, cee_volume, orchestrator_vars>>

\* a caller invokes manager.create_cee_volume(name, size_gb); the gateway
\* holds at most MaxVolumes + 1 volumes
CreateCeeVolume ==
    \E size_gb \in VolumeSizes, reachable \in BOOLEAN :
        LET r == create_cee_volume(TheCache, now, gw, size_gb, reachable)
        IN  /\ gw.volumes.kind = "data" => Len(gw.volumes.data) <= MaxVolumes
            /\ SetCache(r.cache)
            /\ gw' = r.gw
            /\ cee_volume' = r.val
            /\ fetched' = r.calls
            /\ prior_cache_time' = _cache_time
            /\ UNCHANGED <<now, summary, health_report, orchestrator_vars>>

(* Environment: the clock and the gateway's content *)

TickSteps == {CacheTTL, CacheTTL + 1}

Tick ==
    /\ \E d \in TickSteps :
          /\ now + d <= StartTime + MaxTicks * (CacheTTL + 1)
          /\ now' = now + d
    /\ UNCHANGED <<gw, _protection_domains_cache, _storage_pools_cache, _cache_time,
                   summary, health_report, fetched, prior_cache_time, cee_volume,
                   orchestrator_vars>>

Gateway(pd, pools, volumes, sdc, sds) ==
    [pd |-> pd, pools |-> pools, volumes |-> volumes, sdc |-> sdc, sds |-> sds]

\* the answers the gateway alternates between while the clock runs
DriftPools == {RespNone, RespMalformed, RespData(<<PoolNearlyFull>>), RespData(<<PoolUnused>>)}
DriftVolumes == {RespData(d) : d \in SeqUpTo({VolumeThin}, MaxVolumes)}

GatewayChange ==
    /\ \/ \E p \in DriftPools : gw' = [gw EXCEPT !.pools = p]
       \/ \E v \in DriftVolumes : gw' = [gw EXCEPT !.volumes = v]
    /\ gw' # gw
    /\ UNCHANGED <<now, _protection_domains_cache, _storage_pools_cache, _cache_time,
                   summary, health_report, fetched, prior_cache_time, cee_volume,
                   orchestrator_vars>>

InitManager ==
    /\ _protection_domains_cache = NoneCache
    /\ _storage_pools_cache = NoneCache
    /\ _cache_time = 0
    /\ summary = NoSummary
    /\ health_report = NoReport
    /\ fetched = <<>>
    /\ prior_cache_time = 0
    /\ cee_volume = NoVolume

\* get_comprehensive_status and deploy_application_stack not yet called
NoStatusNoStack ==
    /\ comprehensive_status = NoStatus
    /\ stack_config = StackConfig(0, 0, FALSE)
    /\ stack_result = NoStack
    /\ stack_calls = <<>>
    /\ network_health = NoNetworkHealth

\* an orchestrator whose components all initialised, not yet used
InitOrchestrator ==
    /\ components = _initialize_components("none")
    /\ os_faults = {}
    /\ tenant_result = NoResult
    /\ os_calls = <<>>
    /\ system_info = RespData(<<"system">>)
    /\ ovs_list_br = ListBr(TRUE, <<"br-ex", "br-int">>)
    /\ throwing_probes = {}
    /\ health_check = NoHealthCheck
    /\ ovs_ps = PsCpu(125)
    /\ NoStatusNoStack

\* the manager over a gateway whose content drifts while time passes
Init ==
    /\ now = StartTime
    /\ gw \in {Gateway(RespData(<<"protection_domain1">>), p, v,
                       RespData(<<"Connected">>), RespData(<<"Normal">>)) :
                  p \in DriftPools, v \in DriftVolumes}
    /\ InitManager
    /\ InitOrchestrator

Next ==
    \/ Tick
    \/ GatewayChange
    \/ GetCeeStorageSummary
    \/ MonitorVxsdsHealth

Spec == Init /\ [][Next]_vars

\* summaries over a gateway whose pool and protection-domain lists come and
\* go while the clock runs
InitRefresh ==
    /\ now = StartTime
    /\ gw \in {Gateway(pd, p, RespData(<<>>), RespData(<<"Connected">>),
                       RespData(<<"Normal">>)) :
                  pd \in {RespData(<<"protection_domain1">>), RespNone},
                  p \in {RespNone, RespData(<<PoolUnused>>)}}
    /\ InitManager
    /\ InitOrchestrator

PdChange ==
    /\ \E pd \in {RespData(<<"protection_domain1">>), RespNone} : gw' = [gw EXCEPT !.pd = pd]
    /\ gw' # gw
    /\ UNCHANGED <<now, _protection_domains_cache, _storage_pools_cache, _cache_time,
                   summary, health_report, fetched, prior_cache_time, cee_volume,
                   orchestrator_vars>>

NextRefresh ==
    \/ Tick
    \/ GatewayChange
    \/ PdChange
    \/ GetCeeStorageSummary

SpecRefresh == InitRefresh /\ [][NextRefresh]_vars

\* a gateway with no volume yet, whose first pool has room, has little room
\* or is not reported
InitWrite ==
    /\ now = StartTime
    /\ gw \in {Gateway(RespData(<<"protection_domain1">>), p, RespData(<<>>),
                       RespData(<<"Connected">>), RespData(<<"Normal">>)) :
                  p \in {RespData(<<PoolUnused>>), RespData(<<PoolNearlyFull, PoolFilling>>),
                         RespNone}}
    /\ InitManager
    /\ InitOrchestrator

\* summaries and volume creations while the clock runs
NextWrite ==
    \/ Tick
    \/ GetCeeStorageSummary
    \/ CreateCeeVolume

SpecWrite == InitWrite /\ [][NextWrite]_vars

\* the manager applied to every bounded gateway content at one instant
InitClassify ==
    /\ now = StartTime
    /\ gw \in {Gateway(pd, p, v, c, s) :
                  pd \in {RespData(<<"protection_domain1">>), RespMalformed},
                  p \in PoolResponses, v \in VolumeResponses,
                  c \in SdcResponses, s \in SdsResponses}
    /\ InitManager
    /\ InitOrchestrator

NextClassify ==
    \/ GetCeeStorageSummary
    \/ MonitorVxsdsHealth

SpecClassify == InitClassify /\ [][NextClassify]_vars

----------------------------------------------------------------------------
(* Operations of CEEOrchestrator as actions *)

\* the arguments a caller passes: user_name and user_password given or not,
\* a network_cidr, storage_quota_gb
TenantRequests ==
    {TenantRequest(u, TRUE, q) : u \in BOOLEAN, q \in {50, 100}}

\* a caller invokes orchestrator.create_complete_tenant_environment(...)
CreateCompleteTenantEnvironment ==
    \E req \in TenantRequests :
        LET r == create_complete_tenant_environment(components.openstack_client, req,
                                                    os_faults)
        IN  /\ tenant_result' = r.result
            /\ os_calls' = r.log
            /\ UNCHANGED <<storage_vars, components, os_faults, system_info, ovs_list_br,
                           throwing_probes, health_check, ovs_ps, comprehensive_status,
                           stack_config, stack_result, stack_calls,
                       network_health>>

\* a caller invokes orchestrator.perform_health_check()
PerformHealthCheck ==
    LET r == perform_health_check(components, os_faults, system_info, ovs_list_br,
                                  throwing_probes, TheCache, now, gw)
    IN  /\ health_check' = r.val
        /\ IF r.probed
           THEN /\ SetCache(r.monitor.cache)
                /\ summary' = r.monitor.summary
                /\ health_report' = r.monitor.val
                /\ fetched' = r.monitor.calls
                /\ prior_cache_time' = _cache_time
           ELSE UNCHANGED <<_protection_domains_cache, _storage_pools_cache, _cache_time,
                            summary, health_report, fetched, prior_cache_time>>
        /\ UNCHANGED <<now, gw, cee_volume, components, os_faults, tenant_result, os_calls,
                       system_info, ovs_list_br, throwing_probes, ovs_ps,
                       comprehensive_status, stack_config, stack_result, stack_calls,
                       network_health>>

\* a caller invokes orchestrator.get_comprehensive_status()
GetComprehensiveStatus ==
    LET monitor == monitor_vxsds_health(TheCache, now, gw)
    IN  /\ comprehensive_status' =
               get_comprehensive_status(components, os_faults, ovs_list_br, ovs_ps, now,
                                        monitor.val)
        /\ IF components.vxsds_manager
           THEN /\ SetCache(monitor.cache)
                /\ summary' = monitor.summary
                /\ health_report' = monitor.val
                /\ fetched' = monitor.calls
                /\ prior_cache_time' = _cache_time
           ELSE UNCHANGED <<_protection_domains_cache, _storage_pools_cache, _cache_time,
                            summary, health_report, fetched, prior_cache_time>>
        /\ UNCHANGED <<now, gw, cee_volume, components, os_faults, tenant_result, os_calls,
                       system_info, ovs_list_br, throwing_probes, health_check, ovs_ps,
                       stack_config, stack_result, stack_calls,
                       network_health>>

\* the stack configurations a caller passes
StackConfigs ==
    {StackConfig(nv, ni, qos) : nv \in 0..MaxItems, ni \in 0..MaxItems, qos \in BOOLEAN}

\* a caller invokes orchestrator.deploy_application_stack(...)
DeployApplicationStack ==
    \E config \in StackConfigs :
        LET r == deploy_application_stack(components.openstack_client, config, os_faults)
        IN  /\ stack_config' = config
            /\ stack_result' = r.result
            /\ stack_calls' = r.log
            /\ UNCHANGED <<storage_vars, components, os_faults, tenant_result, os_calls,
                           system_info, ovs_list_br, throwing_probes, health_check, ovs_ps,
                           comprehensive_status,
                       network_health>>

\* a caller invokes cee_network_utils.monitor_cee_network_health()
MonitorCeeNetworkHealth ==
    /\ network_health' = monitor_cee_network_health(ovs_list_br, ovs_ps)
    /\ UNCHANGED <<storage_vars, components, os_faults, tenant_result, os_calls,
                   system_info, ovs_list_br, throwing_probes, health_check, ovs_ps,
                   comprehensive_status, stack_config, stack_result, stack_calls>>

\* a storage gateway with one healthy pool and one node of each role
GatewayHealthy ==
    Gateway(RespData(<<"protection_domain1">>), RespData(<<RawPool(TRUE, 20 * KbPerGb, 20 * KbPerGb)>>),
            RespData(<<>>), RespData(<<"Connected">>), RespData(<<"Normal">>))

InitStorage ==
    /\ now = StartTime
    /\ gw = GatewayHealthy
    /\ InitManager

FaultSets(sites) == {f \in SUBSET sites : Cardinality(f) <= MaxFaults}

\* tenant provisioning against every bounded set of failing OpenStack calls
InitTenant ==
    /\ InitStorage
    /\ components \in {_initialize_components(f) : f \in {"none", "openstack"}}
    /\ os_faults \in FaultSets(TenantSites \cup NetworkingSites \cup SecurityGroupSites)
    /\ tenant_result = NoResult
    /\ os_calls = <<>>
    /\ system_info = RespData(<<"system">>)
    /\ ovs_list_br = ListBr(TRUE, <<"br-ex", "br-int">>)
    /\ throwing_probes = {}
    /\ health_check = NoHealthCheck
    /\ ovs_ps = PsCpu(125)
    /\ NoStatusNoStack

NextTenant == CreateCompleteTenantEnvironment

SpecTenant == InitTenant /\ [][NextTenant]_vars

\* the storage gateway answers the health check meets
HealthGateways ==
    {GatewayHealthy,
     [GatewayHealthy EXCEPT !.pools = RespData(<<PoolFilling>>)],
     [GatewayHealthy EXCEPT !.pools = RespData(<<PoolNearlyFull>>)],
     [GatewayHealthy EXCEPT !.pools = RespMalformed]}

\* the health check in every bounded environment
InitHealth ==
    /\ now = StartTime
    /\ gw \in HealthGateways
    /\ InitManager
    /\ components \in {_initialize_components(f) : f \in InitFailures}
    /\ os_faults \in SUBSET {ProjectsSite}
    /\ tenant_result = NoResult
    /\ os_calls = <<>>
    /\ system_info \in SystemResponses
    /\ ovs_list_br \in ListBrOutcomes
    /\ throwing_probes \in SUBSET {checks[i] : i \in 1..Len(checks)}
    /\ health_check = NoHealthCheck
    /\ ovs_ps = PsCpu(125)
    /\ NoStatusNoStack

NextHealth == PerformHealthCheck

SpecHealth == InitHealth /\ [][NextHealth]_vars

\* one pool with 12% of its capacity free
PoolTight == RawPool(TRUE, 25 * KbPerGb, 3 * KbPerGb)

\* the storage gateway answers the status report meets
StatusGateways ==
    HealthGateways
    \cup {[GatewayHealthy EXCEPT !.pools = RespData(<<PoolTight>>)],
          [GatewayHealthy EXCEPT !.pools = RespNone],
          [GatewayHealthy EXCEPT !.sds = RespData(<<"Normal", "Degraded">>)]}

\* the status report in every bounded environment at one instant
InitStatus ==
    /\ now = StartTime
    /\ gw \in StatusGateways
    /\ InitManager
    /\ components \in {_initialize_components(f) : f \in InitFailures}
    /\ os_faults \in SUBSET {ClusterStatusSites[1]}
    /\ tenant_result = NoResult
    /\ os_calls = <<>>
    /\ system_info = RespData(<<"system">>)
    /\ ovs_list_br = ListBr(TRUE, <<"br-ex", "br-int">>)
    /\ throwing_probes = {}
    /\ health_check = NoHealthCheck
    /\ ovs_ps \in PsOutcomes
    /\ NoStatusNoStack

NextStatus ==
    \/ GetComprehensiveStatus
    \/ MonitorCeeNetworkHealth

SpecStatus == InitStatus /\ [][NextStatus]_vars

\* the status report while the clock runs and the gateway's content drifts
NextStatusClock ==
    \/ Tick
    \/ GatewayChange
    \/ GetComprehensiveStatus

SpecStatusClock == Init /\ [][NextStatusClock]_vars

\* the SDK calls that fail in the deployments considered
DeploySites ==
    {Site("create_volume", VolumeNames[i]) : i \in 1..MaxItems}
    \cup {Site(c, InstanceNames[i]) :
              c \in {"create_server", "network.ports", "create_qos_policy"},
              i \in 1..MaxItems}

\* stack deployment against every bounded set of failing OpenStack calls
InitDeploy ==
    /\ InitStorage
    /\ components \in {_initialize_components(f) : f \in {"none", "openstack"}}
    /\ os_faults \in FaultSets(DeploySites)
    /\ tenant_result = NoResult
    /\ os_calls = <<>>
    /\ system_info = RespData(<<"system">>)
    /\ ovs_list_br = ListBr(TRUE, <<"br-ex", "br-int">>)
    /\ throwing_probes = {}
    /\ health_check = NoHealthCheck
    /\ ovs_ps = PsCpu(125)
    /\ NoStatusNoStack

NextDeploy == DeployApplicationStack

SpecDeploy == InitDeploy /\ [][NextDeploy]_vars

\* every SDK call site the three public operations reach
AllSites ==
    TenantSites \cup NetworkingSites \cup SecurityGroupSites \cup DeploySites
    \cup {ClusterStatusSites[i] : i \in 1..Len(ClusterStatusSites)}

\* the public operations with no failing call, one failing call, or every
\* call failing, and with every outcome of _initialize_components
InitOrchestratorFaults ==
    /\ InitStorage
    /\ components \in {_initialize_components(f) : f \in InitFailures}
    /\ os_faults \in {{}, AllSites} \cup {{site} : site \in AllSites}
    /\ tenant_result = NoResult
    /\ os_calls = <<>>
    /\ system_info = RespData(<<"system">>)
    /\ ovs_list_br = ListBr(TRUE, <<"br-ex", "br-int">>)
    /\ throwing_probes = {}
    /\ health_check = NoHealthCheck
    /\ ovs_ps = PsCpu(125)
    /\ NoStatusNoStack

\* no public operation has been invoked on the orchestrator yet
Fresh ==
    /\ ~tenant_result.returned
    /\ ~stack_result.returned
    /\ ~comprehensive_status.returned

\* one public operation invoked on a fresh orchestrator
NextOrchestrator ==
    \/ Fresh /\ CreateCompleteTenantEnvironment
    \/ Fresh /\ DeployApplicationStack
    \/ Fresh /\ GetComprehensiveStatus

SpecOrchestrator == InitOrchestratorFaults /\ [][NextOrchestrator]_vars

----------------------------------------------------------------------------
(* Properties of the storage manager *)

Occurrences(seq, x) == Cardinality({i \in 1..Len(seq) : seq[i] = x})

\* a report built without an internal exception carries the summary it judged
Judged == health_report.returned /\ health_report.metrics.returned

\* C4: in every report monitor_vxsds_health returns without an internal
\* exception, overall_status depends only on whether issues and warnings are
\* empty: issues non-empty gives critical; issues empty and warnings
\* non-empty gives warning; both empty gives healthy.
C4_StatusFromIssuesAndWarnings ==
    Judged =>
        /\ (health_report.issues # <<>>) => health_report.overall_status = "critical"
        /\ (health_report.issues = <<>> /\ health_report.warnings # <<>>)
               => health_report.overall_status = "warning"
        /\ (health_report.issues = <<>> /\ health_report.warnings = <<>>)
               => health_report.overall_status = "healthy"

\* a report with issues and warnings at once: the issues decide
C4_Witness ==
    /\ Judged
    /\ health_report.issues # <<>>
    /\ health_report.warnings # <<>>
    /\ health_report.overall_status = "critical"

\* C5: in every summary returned by get_cee_storage_summary, used_gb equals
\* total_gb - free_gb and is never negative; when the summed free capacity
\* exceeds the summed total capacity, used_gb is clamped to 0.
C5_UsedClampedAtZero ==
    summary.returned =>
        LET cap == summary.capacity
        IN  /\ cap.used_gb >= 0
            /\ cap.free_gb <= cap.total_gb => cap.used_gb = cap.total_gb - cap.free_gb
            /\ cap.free_gb > cap.total_gb => cap.used_gb = 0

\* a call of get_cee_storage_summary, direct or from monitor_vxsds_health
SummaryCall == GetCeeStorageSummary \/ MonitorVxsdsHealth

\* C6: two calls of get_cee_storage_summary within one TTL window (no refresh
\* due between them) return identical summaries, and the second call makes
\* no call to the storage gateway.
C6_IdempotentWithinTTL ==
    [][(GetCeeStorageSummary /\ summary.returned /\ now - _cache_time <= CacheTTL)
          => (summary' = summary /\ fetched' = <<>>)]_vars

CapacityIssues == Occurrences(health_report.issues, "capacity_critical")
CapacityWarnings == Occurrences(health_report.warnings, "capacity_low")

\* C9: the capacity rule of monitor_vxsds_health: with total_gb = 0 there is
\* no capacity issue or warning and no division (the report is not an error
\* report); with total_gb > 0 and free percentage < 10 exactly one capacity
\* issue; with 10 <= free percentage < 20 exactly one capacity warning and
\* no capacity issue; with free percentage >= 20 neither.
C9_CapacityRule ==
    Judged =>
        LET total == health_report.metrics.capacity.total_gb
            free == health_report.metrics.capacity.free_gb
        IN  /\ health_report.overall_status # "error"
            /\ total = 0 => CapacityIssues = 0 /\ CapacityWarnings = 0
            /\ (total > 0 /\ free * 100 < 10 * total)
                   => CapacityIssues = 1 /\ CapacityWarnings = 0
            /\ (total > 0 /\ free * 100 >= 10 * total /\ free * 100 < 20 * total)
                   => CapacityIssues = 0 /\ CapacityWarnings = 1
            /\ (total > 0 /\ free * 100 >= 20 * total)
                   => CapacityIssues = 0 /\ CapacityWarnings = 0

\* free capacity of exactly 10%: a warning, not an issue
C9_Witness ==
    /\ Judged
    /\ health_report.metrics.capacity.total_gb > 0
    /\ health_report.metrics.capacity.free_gb * 10 = health_report.metrics.capacity.total_gb
    /\ CapacityWarnings = 1
    /\ CapacityIssues = 0

\* the capacity of the judged summary raises no finding
CapacityFine ==
    LET total == health_report.metrics.capacity.total_gb
        free == health_report.metrics.capacity.free_gb
    IN  total = 0 \/ free * 100 >= 20 * total

\* C10: the node-role rule of monitor_vxsds_health, for SDC and SDS alike: a
\* role with zero nodes produces an issue (verdict critical); a role with at
\* least one node and fewer online than total produces a warning and no
\* issue, so a summary whose only defect is a partial outage is classified
\* warning, not critical.
C10_NodeRoleRule ==
    Judged =>
        LET n == health_report.metrics.nodes
            SdcOutage == n.sdc_count > 0 /\ n.sdc_online < n.sdc_count
            SdsOutage == n.sds_count > 0 /\ n.sds_online < n.sds_count
        IN  /\ n.sdc_count = 0 => /\ Occurrences(health_report.issues, "no_sdc_nodes") = 1
                                  /\ health_report.overall_status = "critical"
            /\ n.sds_count = 0 => /\ Occurrences(health_report.issues, "no_sds_nodes") = 1
                                  /\ health_report.overall_status = "critical"
            /\ SdcOutage => /\ Occurrences(health_report.warnings, "sdc_not_all_online") = 1
                            /\ Occurrences(health_report.issues, "sdc_not_all_online") = 0
                            /\ Occurrences(health_report.issues, "no_sdc_nodes") = 0
            /\ SdsOutage => /\ Occurrences(health_report.warnings, "sds_not_all_online") = 1
                            /\ Occurrences(health_report.issues, "sds_not_all_online") = 0
                            /\ Occurrences(health_report.issues, "no_sds_nodes") = 0
            /\ ((SdcOutage \/ SdsOutage) /\ n.sdc_count > 0 /\ n.sds_count > 0 /\ CapacityFine)
                   => /\ health_report.issues = <<>>
                      /\ health_report.overall_status = "warning"

\* one of two SDS nodes online and nothing else wrong: warning
C10_Witness ==
    /\ Judged
    /\ health_report.metrics.nodes.sds_count = 2
    /\ health_report.metrics.nodes.sds_online = 1
    /\ health_report.metrics.nodes.sdc_online = health_report.metrics.nodes.sdc_count
    /\ health_report.metrics.nodes.sdc_count > 0
    /\ CapacityFine
    /\ health_report.overall_status = "warning"

----------------------------------------------------------------------------
(* Properties of tenant provisioning *)

Created(key) == key \in DOMAIN tenant_result.created_resources

Step1Succeeded == tenant_result.returned /\ Created("openstack")

Step1Failed == tenant_result.returned /\ ~Created("openstack")

\* an SDK call of the networking step (step 2) raised
NetworkingFailedAtAdapter ==
    \E i \in 1..Len(os_calls) : os_calls[i].step = 2 /\ ~os_calls[i].ok

\* C1: when step 1 succeeded and a network or subnet creation of the
\* networking step failed at the adapter, the result has status
\* partial_failure, created_resources has 'openstack' and no 'networking',
\* and errors holds exactly one string, which refers to networking.
C1_NetworkingFailureIsPartial ==
    (Step1Succeeded /\ NetworkingFailedAtAdapter) =>
        /\ tenant_result.status = "partial_failure"
        /\ Created("openstack")
        /\ ~Created("networking")
        /\ Len(tenant_result.errors) = 1
        /\ tenant_result.errors[1].source = "networking"

\* C2: when step 1 failed, the returned status is error and errors contains
\* the step-1 failure message.
C2_Step1FailureIsError ==
    Step1Failed =>
        /\ tenant_result.status = "error"
        /\ \E i \in 1..Len(tenant_result.errors) :
               tenant_result.errors[i].source \in {"openstack_tenant", "exception"}

\* the SDK calls that need the project of step 1
ProjectDependentCalls ==
    {"create_network", "create_subnet", "create_router", "create_security_group"}

\* C3: when step 1 failed, no network, subnet, router or security-group
\* creation call reaches the adapter in the steps after step 1 of that run.
C3_NoDependentStepAfterFailure ==
    Step1Failed =>
        \A i \in 1..Len(os_calls) :
            os_calls[i].step > 1 => os_calls[i].call \notin ProjectDependentCalls

----------------------------------------------------------------------------
(* Properties of the health check *)

\* C8: perform_health_check runs the five check functions once each in the
\* fixed order, whatever each returns or raises: a check function that
\* raises has the entry fail, every check has an entry, and
\* passed + warnings + failed = 5.
C8_AllProbesRunAndTallied ==
    health_check.returned =>
        /\ health_check.order = checks
        /\ DOMAIN health_check.checks = {checks[i] : i \in 1..Len(checks)}
        /\ \A name \in throwing_probes : health_check.checks[name] = "fail"
        /\ health_check.passed + health_check.warnings + health_check.failed = 5

\* the first check function raises and the later ones still run
C8_Witness ==
    /\ health_check.returned
    /\ "openstack_api" \in throwing_probes
    /\ health_check.checks["openstack_api"] = "fail"
    /\ health_check.checks["network_connectivity"] = "pass"
    /\ health_check.checks["storage_health"] = "warning"
    /\ Len(health_check.order) = 5

----------------------------------------------------------------------------
(* Properties of the status report *)

Reported(key) == key \in DOMAIN comprehensive_status.components

\* the three subsystem verdicts the report was built from
StorageCritical ==
    Reported("vxsds") /\ comprehensive_status.components["vxsds"].overall_status = "critical"

ControlPlaneUnhealthy ==
    Reported("openstack") /\ comprehensive_status.components["openstack"].status # "success"

StorageUnhealthy ==
    Reported("vxsds") /\ comprehensive_status.components["vxsds"].overall_status # "healthy"

SwitchUnhealthy ==
    Reported("ovs") /\ HighOvsCpu(comprehensive_status.components["ovs"])

\* C11: overall_health of get_comprehensive_status is the worst of the three
\* subsystem verdicts: critical when the storage verdict is critical,
\* warning when none is critical and at least one subsystem is not healthy,
\* healthy when all are healthy.
C11_WorstOfThree ==
    comprehensive_status.returned =>
        comprehensive_status.overall_health =
            IF StorageCritical THEN "critical"
            ELSE IF ControlPlaneUnhealthy \/ StorageUnhealthy \/ SwitchUnhealthy
            THEN "warning"
            ELSE "healthy"

\* the capacity figures of the storage summary the report carries
ReportedCapacity == comprehensive_status.components["vxsds"].metrics.capacity

\* the report carries a storage summary whose free percentage is below 15
StorageTight ==
    /\ Reported("vxsds")
    /\ comprehensive_status.components["vxsds"].metrics.returned
    /\ ReportedCapacity.total_gb > 0
    /\ ReportedCapacity.free_gb * 100 < 15 * ReportedCapacity.total_gb

Recommends(text) == Occurrences(comprehensive_status.recommendations, text) > 0

\* C12: in every status get_comprehensive_status returns without an internal
\* exception, the recommendations hold 'System is operating normally' iff
\* alerts is empty, 'Review alerts and consider maintenance actions' iff
\* alerts is non-empty, and 'Consider adding storage capacity' iff the
\* storage summary has total_gb > 0 and a free percentage below 15.
C12_RecommendationRules ==
    (comprehensive_status.returned /\ comprehensive_status.overall_health # "error") =>
        /\ Recommends("System is operating normally")
               <=> comprehensive_status.alerts = <<>>
        /\ Recommends("Review alerts and consider maintenance actions")
               <=> comprehensive_status.alerts # <<>>
        /\ Recommends("Consider adding storage capacity") <=> StorageTight

\* a report without internal exception over a pool with 12% free
C12_Witness ==
    /\ comprehensive_status.returned
    /\ comprehensive_status.overall_health = "warning"
    /\ StorageTight
    /\ ReportedCapacity.free_gb * 100 >= 10 * ReportedCapacity.total_gb
    /\ Recommends("Review alerts and consider maintenance actions")
    /\ Recommends("Consider adding storage capacity")

----------------------------------------------------------------------------
(* Properties of the public operations together *)

\* C13: create_complete_tenant_environment, deploy_application_stack and
\* get_comprehensive_status let no exception escape, whatever adapter call
\* fails and whichever components are None: each call returns a result with
\* its status field, and a result with status error carries its error or
\* alert information.
C13_NoExceptionEscapes ==
    [][/\ CreateCompleteTenantEnvironment =>
              /\ tenant_result'.returned
              /\ tenant_result'.status \in {"success", "partial_failure", "error"}
              /\ tenant_result'.status # "success" => tenant_result'.errors # <<>>
       /\ DeployApplicationStack =>
              /\ stack_result'.returned
              /\ stack_result'.status \in {"success", "error"}
              /\ stack_result'.status = "error" => stack_result'.message # ""
       /\ GetComprehensiveStatus =>
              /\ comprehensive_status'.returned
              /\ comprehensive_status'.overall_health
                     \in {"healthy", "warning", "critical", "error"}
              /\ comprehensive_status'.overall_health # "healthy"
                     => comprehensive_status'.alerts # <<>>]_vars

\* an exception inside get_comprehensive_status came back as a status
C13_Witness ==
    /\ comprehensive_status.returned
    /\ components.ovs_manager
    /\ comprehensive_status.overall_health = "error"
    /\ Occurrences(comprehensive_status.alerts, "Status collection error") = 1

----------------------------------------------------------------------------
(* Further properties of tenant provisioning *)

\* the SDK call that would undo each creating call
UndoOf ==
    [delete_project |-> "create_project", delete_user |-> "create_user",
     delete_network |-> "create_network", delete_subnet |-> "create_subnet",
     delete_router |-> "create_router",
     delete_security_group |-> "create_security_group"]

CreatingCalls == {UndoOf[c] : c \in DOMAIN UndoOf}

\* the resources existing in the backend after the first k calls of the run
ResourcesAfter(k) ==
    {<<os_calls[i].call, os_calls[i].target>> :
        i \in {n \in 1..k :
                  /\ os_calls[n].ok
                  /\ os_calls[n].call \in CreatingCalls
                  /\ ~\E j \in (n + 1)..k :
                         /\ os_calls[j].ok
                         /\ os_calls[j].call \in DOMAIN UndoOf
                         /\ UndoOf[os_calls[j].call] = os_calls[n].call
                         /\ os_calls[j].target = os_calls[n].target}}

\* C14: during a run of create_complete_tenant_environment, whatever steps
\* fail, no delete or undo call is issued and the set of resources existing
\* in the backend never shrinks.
C14_ProvisioningIsAdditive ==
    tenant_result.returned =>
        \A k \in 1..Len(os_calls) :
            /\ os_calls[k].call \notin DOMAIN UndoOf
            /\ ResourcesAfter(k - 1) \subseteq ResourcesAfter(k)

\* the web group was created, the ssh group failed, and the web group stays
C14_Witness ==
    /\ tenant_result.returned
    /\ Site("create_security_group", "ssh") \in os_faults
    /\ <<"create_security_group", "web">> \in ResourcesAfter(Len(os_calls))
    /\ <<"create_project", "tenant">> \in ResourcesAfter(Len(os_calls))
    /\ \E i \in 1..Len(os_calls) : ~os_calls[i].ok

\* C15: the storage-quota step is always attempted: every returned result,
\* whatever its status, has created_resources['storage'] holding the
\* requested quota.
C15_StorageAlwaysRecorded ==
    [][\A req \in TenantRequests :
          tenant_result' = create_complete_tenant_environment(
                               components.openstack_client, req, os_faults).result
          => /\ "storage" \in DOMAIN tenant_result'.created_resources
             /\ tenant_result'.created_resources["storage"].allocated_quota_gb
                    = req.storage_quota_gb]_vars

\* the calls of step 1 that create the project and its user
IdentityCalls ==
    {"create_project", "create_user", "find_role", "assign_project_role_to_user"}

\* the project, and the user when one was asked for, were created
ProjectCreated ==
    /\ \E i \in 1..Len(os_calls) :
           os_calls[i].call = "create_project" /\ os_calls[i].ok
    /\ \A i \in 1..Len(os_calls) :
           (os_calls[i].step = 1 /\ os_calls[i].call \in IdentityCalls) => os_calls[i].ok

SecurityGroupsAttempted == \E i \in 1..Len(os_calls) : os_calls[i].step = 3

\* C16: the security groups are attempted exactly when the project was
\* created, whatever happened to the tenant network, subnet and router.
C16_SecurityGroupsFollowProject ==
    tenant_result.returned => (SecurityGroupsAttempted <=> ProjectCreated)

----------------------------------------------------------------------------
(* Properties of stack deployment *)

\* the items of the last stack_config, volumes first
StackItems == stack_config.volumes \o stack_config.instances

\* create_vm_with_vxsds_storage was called for the item
Attempted(item) ==
    \E i \in 1..Len(stack_calls) :
        /\ stack_calls[i].call = VmCalls[1]
        /\ stack_calls[i].target = item.name

\* an SDK call made for the item raised
ItemFailed(item) ==
    \E i \in 1..Len(stack_calls) :
        stack_calls[i].target = item.name /\ ~stack_calls[i].ok

\* the creation of the item failed
CreationFailed(item) ==
    \E i \in 1..Len(stack_calls) :
        /\ stack_calls[i].target = item.name
        /\ stack_calls[i].call \in {VmCalls[n] : n \in 1..Len(VmCalls)}
        /\ ~stack_calls[i].ok

\* C17: with a working client, the failure of one volume or instance item
\* (its creation, its port listing or its QoS) does not stop the batch:
\* every item after a failed one is still attempted.
C17_BatchContinuesAfterFailure ==
    (stack_result.returned /\ components.openstack_client) =>
        \A i, j \in 1..Len(StackItems) :
            (i < j /\ ItemFailed(StackItems[i])) => Attempted(StackItems[j])

\* C18: whenever the creation of at least one item failed, the returned
\* result differs from an all-success result in its status, or carries an
\* error message.
C18_FailedItemsRecorded ==
    (stack_result.returned /\ \E i \in 1..Len(StackItems) : CreationFailed(StackItems[i]))
        => (stack_result.status # "success" \/ stack_result.message # "")

----------------------------------------------------------------------------
(* Properties of the storage summary with a missing category *)

Categories == {"pools", "volumes", "sdc", "sds"}

\* the gateway returns nothing for one category and data for all the others
OnlyMissing(cat) ==
    /\ gw[cat] = RespNone
    /\ gw.pd.kind = "data"
    /\ \A other \in Categories \ {cat} : gw[other].kind = "data"

\* the summary entry of the category is zeroed or empty
Zeroed(cat) ==
    LET m == health_report.metrics
    IN  CASE cat = "pools" -> m.storage_pools = <<>> /\ m.capacity.total_gb = 0
          [] cat = "volumes" -> m.volumes.total_count = 0 /\ m.volumes.total_size_gb = 0
          [] cat = "sdc" -> m.nodes.sdc_count = 0 /\ m.nodes.sdc_online = 0
          [] cat = "sds" -> m.nodes.sds_count = 0 /\ m.nodes.sds_online = 0

\* nothing in the categories that are present calls for an issue
OthersRaiseNoIssue(cat) ==
    LET m == health_report.metrics
    IN  /\ cat # "sdc" => m.nodes.sdc_count > 0
        /\ cat # "sds" => m.nodes.sds_count > 0
        /\ m.capacity.total_gb = 0 \/ m.capacity.free_gb * 100 >= 10 * m.capacity.total_gb

\* C19: when the gateway returns nothing for one category, the summary is
\* still returned with that category zeroed, and the missing category alone
\* produces no issue and never the verdict critical.
C19_MissingCategoryIsNoIssue ==
    \A cat \in Categories :
        (health_report.returned /\ OnlyMissing(cat)) =>
            /\ Judged
            /\ Zeroed(cat)
            /\ OthersRaiseNoIssue(cat) => /\ health_report.issues = <<>>
                                          /\ health_report.overall_status # "critical"

----------------------------------------------------------------------------
(* Frame of get_comprehensive_status *)

\* the attributes of CEEVxSDSManager that hold the cache
cache_vars == <<_protection_domains_cache, _storage_pools_cache, _cache_time>>

----------------------------------------------------------------------------
(* Properties of the cache under writes and failed refreshes *)

\* C21: a write never invalidates the read cache: create_cee_volume called
\* within the TTL leaves the cached pools, the cached protection domains
\* and the cache timestamp unchanged, and a summary requested within the
\* TTL after a volume was created still reports the pool figures that
\* were cached, without fetching the pools again.
C21_WriteKeepsCache ==
    [][/\ (CreateCeeVolume /\ now - _cache_time <= CacheTTL) => UNCHANGED cache_vars
       /\ (/\ GetCeeStorageSummary
           /\ cee_volume.returned
           /\ cee_volume.created
           /\ now - _cache_time <= CacheTTL
           /\ summary'.returned)
          => /\ UNCHANGED cache_vars
             /\ summary'.capacity = Capacity(_storage_pools_cache.val)
             /\ summary'.storage_pools = StoragePools(_storage_pools_cache.val)
             /\ Occurrences(fetched', "get_storage_pools") = 0]_vars

\* a summary taken within the TTL after a volume was created reports pool
\* figures that the gateway no longer has
C21_Witness ==
    /\ summary.returned
    /\ cee_volume.returned
    /\ cee_volume.created
    /\ _cache_time <= cee_volume.at
    /\ summary.timestamp > cee_volume.at
    /\ summary.timestamp - _cache_time <= CacheTTL
    /\ Occurrences(fetched, "get_storage_pools") = 0
    /\ summary.capacity # Capacity(get_storage_pools(gw.pools).val)

----------------------------------------------------------------------------
(* Properties of monitor_vxsds_health when the summary cannot be built *)

Malformed(resp) == resp.kind = "malformed"

\* a getter that the coming summary calls meets a body it cannot read
SummaryWillRaise ==
    \/ RefreshDue(TheCache, now) /\ (Malformed(gw.pd) \/ Malformed(gw.pools))
    \/ Malformed(gw.volumes)
    \/ Malformed(gw.sdc)
    \/ Malformed(gw.sds)

\* C22: when building or evaluating the summary raises inside
\* monitor_vxsds_health, the report is returned with the verdict error,
\* exactly one issue (the monitoring error) and no warning; the verdict
\* error is given in no other case.
C22_ExceptionIsError ==
    [][MonitorVxsdsHealth =>
          /\ health_report'.returned
          /\ SummaryWillRaise =>
                 /\ health_report'.overall_status = "error"
                 /\ health_report'.issues = <<"monitoring_error">>
                 /\ health_report'.warnings = <<>>
          /\ ~SummaryWillRaise =>
                 health_report'.overall_status \in {"healthy", "warning", "critical"}]_vars

\* the volume list could not be read and the report says error
C22_Witness ==
    /\ health_report.returned
    /\ Malformed(gw.volumes)
    /\ ~Malformed(gw.pools)
    /\ health_report.overall_status = "error"
    /\ Len(health_report.issues) = 1

----------------------------------------------------------------------------
(* Properties of the network verdict *)

\* `ps aux` shows ovs-vswitchd above 80% CPU
CpuAbove80 == ovs_ps.success /\ ovs_ps.found /\ ovs_ps.cpu > 800

\* every required bridge is listed
BridgesPresent ==
    /\ ovs_list_br.success
    /\ \A i \in 1..Len(required_bridges) :
           \E j \in 1..Len(ovs_list_br.bridges) :
               ovs_list_br.bridges[j] = required_bridges[i]

\* C23: a CPU of ovs-vswitchd above 80% is a warning: with no other
\* network problem the network verdict is warning and never critical, a
\* CPU of 80% or less leaves the verdict healthy, and in the status report
\* a CPU above 80% alone makes overall_health warning, never critical.
C23_HighCpuIsWarning ==
    /\ (network_health.called /\ BridgesPresent /\ CpuAbove80) =>
           /\ network_health.returned
           /\ network_health.overall_status = "warning"
    /\ (network_health.called /\ network_health.returned /\ BridgesPresent
            /\ ~CpuAbove80) => network_health.overall_status = "healthy"
    /\ (/\ comprehensive_status.returned
        /\ components.ovs_manager
        /\ CpuAbove80
        /\ ~ControlPlaneUnhealthy
        /\ ~StorageUnhealthy) => comprehensive_status.overall_health = "warning"

----------------------------------------------------------------------------
(* Order of the calls of a stack deployment *)

\* the calls that list the ports of an instance and configure their QoS
QosCalls ==
    {"network.ports", "create_qos_policy", "create_qos_bandwidth_limit_rule", "update_port"}

\* the instance was created and reached its ready state before call j
ReadyBefore(name, j) ==
    \E i \in 1..(j - 1) :
        /\ stack_calls[i].call = VmCalls[Len(VmCalls)]
        /\ stack_calls[i].target = name
        /\ stack_calls[i].ok

\* QoS was configured for the instance
QosConfigured(name) ==
    \E j \in 1..Len(stack_calls) :
        stack_calls[j].call = "create_qos_policy" /\ stack_calls[j].target = name

\* C24: deploy_application_stack makes every call for the volume specs
\* before the first call for an instance spec; the ports of an instance
\* are listed and their QoS configured only after the creation of that
\* instance returned success, never for an instance whose creation failed,
\* and always for a created instance with a qos entry whose ports could be
\* listed.
C24_VolumesFirstQosAfterReady ==
    (stack_result.returned /\ components.openstack_client) =>
        /\ \A i, j \in 1..Len(stack_calls) :
               (stack_calls[i].step = 2 /\ stack_calls[j].step = 1) => j < i
        /\ \A j \in 1..Len(stack_calls) :
               stack_calls[j].call \in QosCalls
                   => ReadyBefore(stack_calls[j].target, j)
        /\ \A n \in 1..Len(stack_config.instances) :
               LET item == stack_config.instances[n]
               IN  /\ CreationFailed(item) => ~QosConfigured(item.name)
                   /\ (/\ item.qos
                       /\ ReadyBefore(item.name, Len(stack_calls) + 1)
                       /\ ~ItemFailed(item)) => QosConfigured(item.name)

\* a volume was handled, the first instance failed and got no QoS, the
\* second was created and got its QoS
C24_Witness ==
    /\ stack_result.returned
    /\ Len(stack_config.volumes) >= 1
    /\ Len(stack_config.instances) = 2
    /\ CreationFailed(stack_config.instances[1])
    /\ ~QosConfigured(stack_config.instances[1].name)
    /\ QosConfigured(stack_config.instances[2].name)
    /\ stack_result.instances = <<stack_config.instances[2].name>>

----------------------------------------------------------------------------
(* Status and errors of a provisioning result *)

\* the statements of the run that set status to partial_failure or error
StatusTransitions ==
    (IF components.openstack_client /\ ~Created("openstack") THEN 1 ELSE 0)
    + (IF components.openstack_client /\ ~Created("networking") THEN 1 ELSE 0)
    + (IF tenant_result.status = "error" THEN 1 ELSE 0)

\* C25: in every result of create_complete_tenant_environment, status is
\* success if and only if errors is empty, and errors holds exactly one
\* string for every step that set status to partial_failure or error.
C25_StatusMatchesErrors ==
    tenant_result.returned =>
        /\ tenant_result.status = "success" <=> tenant_result.errors = <<>>
        /\ Len(tenant_result.errors) = StatusTransitions

\* step 1 failed at the adapter: partial_failure with its one error string
C25_Witness ==
    /\ tenant_result.returned
    /\ components.openstack_client
    /\ \E i \in 1..Len(os_calls) : os_calls[i].step = 1 /\ ~os_calls[i].ok
    /\ tenant_result.status = "partial_failure"
    /\ Len(tenant_result.errors) = 1
    /\ tenant_result.errors[1].source = "openstack_tenant"

\* the backend created the project during the run
ProjectExists ==
    \E i \in 1..Len(os_calls) : os_calls[i].call = "create_project" /\ os_calls[i].ok

\* C26: every result of a run in which the project was created carries a
\* handle to that project in created_resources, also when a later sub-step
\* of the tenant setup (user, role, router, router interface) failed.
C26_CreatedProjectIsReported ==
    (tenant_result.returned /\ ProjectExists) =>
        /\ Created("openstack")
        /\ "project" \in tenant_result.created_resources["openstack"]

----------------------------------------------------------------------------
(* Component initialisation and the health check of a bare orchestrator *)

\* C27: component initialisation is a prefix: the VxSDS client and manager
\* are set only if the OpenStack client is, and the OVS manager only if
\* they are; perform_health_check on an orchestrator whose OpenStack
\* initialisation failed returns passed = 1, warnings = 1, failed = 3.
C27_InitialisationIsPrefix ==
    /\ components.ovs_manager => components.vxsds_manager
    /\ components.vxsds_manager => components.vxsds_client
    /\ components.vxsds_client => components.openstack_client
    /\ (health_check.returned /\ ~components.openstack_client /\ throwing_probes = {})
           => /\ health_check.passed = 1
              /\ health_check.warnings = 1
              /\ health_check.failed = 3

\* the health check of an orchestrator without any component
C27_Witness ==
    /\ health_check.returned
    /\ throwing_probes = {}
    /\ components = Components(FALSE, FALSE, FALSE, FALSE)
    /\ health_check.failed = 3
    /\ health_check.passed = 1

\* the fetch of the list came back empty because the gateway did not answer
FetchFails(resp) == resp = RespNone

----------------------------------------------------------------------------
(* Further properties of the status report *)

\* healthy < warning < critical
Severity(health) ==
    CASE health = "healthy" -> 0
      [] health = "warning" -> 1
      [] health = "critical" -> 2

\* C29: in a call of get_comprehensive_status that raises no internal
\* exception, overall_health never improves while the components are
\* evaluated in the order OpenStack, VxSDS, OVS.
C29_HealthOnlyWorsens ==
    (comprehensive_status.returned /\ comprehensive_status.overall_health # "error") =>
        LET steps == comprehensive_status.health_steps
        IN  /\ steps[1] = "healthy"
            /\ steps[Len(steps)] = comprehensive_status.overall_health
            /\ \A i \in 1..(Len(steps) - 1) : Severity(steps[i]) <= Severity(steps[i + 1])

\* the control plane made it warning, the storage verdict then critical
C29_Witness ==
    /\ comprehensive_status.returned
    /\ comprehensive_status.overall_health = "critical"
    /\ comprehensive_status.health_steps = <<"healthy", "warning", "critical">>

\* C30: 'Consider adding storage capacity' never appears together with
\* 'System is operating normally': whenever the storage free percentage is
\* below 15 with total_gb > 0, the storage verdict is not healthy, alerts
\* is non-empty and overall_health is not healthy.
C30_CapacityAdviceNeverWithNormal ==
    comprehensive_status.returned =>
        /\ ~(/\ Recommends("Consider adding storage capacity")
             /\ Recommends("System is operating normally"))
        /\ StorageTight => /\ StorageUnhealthy
                           /\ comprehensive_status.alerts # <<>>
                           /\ comprehensive_status.overall_health # "healthy"

\* 12% free and nothing else wrong: the advice comes with the storage alert
C30_Witness ==
    /\ comprehensive_status.returned
    /\ StorageTight
    /\ ~ControlPlaneUnhealthy
    /\ Recommends("Consider adding storage capacity")
    /\ ~Recommends("System is operating normally")
    /\ comprehensive_status.alerts = <<"VxSDS issues">>

====
